---- MODULE Spec2Model ----
(***************************************************************************)
(* Entitlement / quota core of the LEPT AI Reviewer.                       *)
(*                                                                         *)
(* The USERS, USAGE_LOGS and IP_USAGE tables, the st.cache_data cache of   *)
(* cached_get_user_by_email, and the request handlers that read and spend  *)
(* a user's question quota (services/usage_tracker.py on top of            *)
(* database/queries.py and database/connection.py).  Every SQL statement   *)
(* is one atomic step; requests of different sessions interleave between   *)
(* statements.                                                             *)
(***************************************************************************)
EXTENDS Integers, Sequences, FiniteSets, TLC

(***************************************************************************)
(* Bounds of the model.                                                    *)
(***************************************************************************)
NProcs == 2          \* concurrent sessions
MaxCalls == 2        \* use_questions invocations in one behaviour
MaxAdminOps == 1     \* admin panel writes in one behaviour
MaxFailures == 1     \* statements that fail with a database error
MaxTime == 2         \* last value of the clock
MaxEvals == 1        \* entitlement evaluations in one behaviour
MaxCacheReads == 1   \* cached_get_user_by_email calls in one behaviour
NAdmins == 2         \* admin sessions with a payment card open
MaxDeletes == 2      \* document deletions in one behaviour
MaxListings == 2     \* document listings in one behaviour
MaxOutages == 2      \* losses of the database connection in one behaviour
MaxLogins == 2       \* get_or_create_user invocations in one behaviour
MaxCreates == 1      \* direct write_create_user calls in one behaviour
MaxPlanChanges == 2  \* direct change_user_plan calls in one behaviour
MaxHistoryCalls == 2 \* log_ip_history invocations in one behaviour
MaxLookups == 2      \* cached lookups in one behaviour
MaxElapses == 2      \* pauses between the cached lookups of one behaviour
MaxQueries == 3      \* writes sent through the shared connection in one behaviour

(***************************************************************************)
(* Program constants.                                                      *)
(***************************************************************************)
FREE_QUESTION_LIMIT == 10
PRO_QUESTION_BONUS == 75
PREMIUM_DURATION_DAYS == 30
PREMIUM_UNLIMITED == 9999

PLAN_FREE == "FREE"
PLAN_PRO == "PRO"
PLAN_PREMIUM == "PREMIUM"
Plans == {PLAN_FREE, PLAN_PRO, PLAN_PREMIUM}

\* SQL NULL / Python None in an integer column or argument
NULL == -1

Procs == 1..NProcs
Emails == {"u1"}
IPs == {"ip1"}
\* batch sizes passed to use_questions
Counts == {2, 5}
\* quotas a user row is seeded with
SeedQuotas == {0, 5, 10}
\* explicit quota arguments of the admin panel
QuotaArgs == {0, 5}
NowInit == 1
\* expiry timestamps a PREMIUM row is seeded with: one past, one still ahead
SeedExpiries == {0, 2}

VARIABLES
    users,        \* USERS table: email -> row, for the emails that have a row
    usage_logs,   \* USAGE_LOGS table: sequence of inserted rows
    ip_usage,     \* IP_USAGE table: ip -> row, for the ips that have a row
    userCache,    \* st.cache_data store of cached_get_user_by_email
    now,          \* datetime.now()
    pc,           \* position of each session inside use_questions
    args,         \* arguments of the running use_questions call
    user,         \* local variable `user` of use_questions: <<>> is None
    ret,          \* value returned by use_questions
    lastEval,     \* input and result of the last can_generate_questions call
    seed,         \* the USERS table of the initial state
    subtracted,   \* total taken from questions_remaining by use_questions
    decOutcome,   \* what the decrement statement of the call did
    lastRead,     \* where the call's value of `user` came from
    calls,        \* number of use_questions invocations so far
    adminOps,     \* number of admin panel writes so far
    dbFailures,   \* number of failed statements so far
    evals,        \* number of entitlement evaluations so far
    cacheReads,   \* number of cached_get_user_by_email calls so far
    login,        \* position and locals of each session inside get_or_create_user
    lastPlan,     \* arguments, time and result of the last direct change_user_plan call
    payments,     \* PAYMENTS table: payment_id -> row
    card,         \* the payment card open in each admin session
    user_documents,   \* USER_DOCUMENTS table: doc_id -> row
    admin_documents,  \* ADMIN_DOCUMENTS table: admin_doc_id -> row
    userDocsCache,    \* st.cache_data store of cached_get_user_documents
    adminDocsCache,   \* st.cache_data store of cached_get_admin_documents
    lastListing,  \* the last document listing that was returned
    cachedConn,   \* st.cache_resource store of get_connection
    dbReachable,  \* whether the database server can be reached
    eq,           \* position, result and event trace of the execute_query call
    opCount,      \* number of operations of each kind outside the quota core
    retrieval,    \* the last content or text retrieval of an admin document
    user_ip_history,  \* USER_IP_HISTORY table: sequence of rows
    hist,         \* locals of the sessions inside log_ip_history
    admin_actions,    \* ADMIN_ACTIONS table: sequence of inserted rows
    del,          \* position inside the running delete_user call
    ttlCache,     \* st.cache_data stores with the time each entry was stored
    lastLookup,   \* the last cached lookup: arguments, time and value
    transaction,  \* the open transaction of the shared connection
    xq,           \* the execute_query calls that share the connection
    practice,     \* position and locals of the running render_practice_page
    retry,        \* the write statement execute_query is about to send again
    save,         \* locals of the sessions inside a save_* / create_payment call
    saved_rows    \* ID and natural key of the rows the save calls inserted

vars == <<users, usage_logs, ip_usage, userCache, now, pc, args, user, ret,
          lastEval, seed, subtracted, decOutcome, lastRead,
          calls, adminOps, dbFailures, evals, cacheReads,
          login, lastPlan, payments, card,
          user_documents, admin_documents, userDocsCache, adminDocsCache,
          lastListing, cachedConn, dbReachable, eq, opCount,
          retrieval, user_ip_history, hist, admin_actions, del,
          ttlCache, lastLookup, transaction, xq,
          practice, retry, save, saved_rows>>

loginVars == <<login>>
payVars == <<payments, card>>
docVars == <<user_documents, admin_documents, userDocsCache, adminDocsCache,
             lastListing>>
connVars == <<cachedConn, dbReachable, eq>>
\* the practice request, the statement being retried, the save calls
flowVars == <<practice, retry, save, saved_rows>>
\* retrieval, IP history, audit log, user deletion, time-to-live caches, the
\* shared transaction and the request flows
sideVars == <<retrieval, user_ip_history, hist, admin_actions, del,
              ttlCache, lastLookup, transaction, xq, flowVars>>
histVars == <<user_ip_history, hist>>
auditVars == <<admin_actions, del>>
ttlVars == <<ttlCache, lastLookup>>
txVars == <<transaction, xq>>
\* everything outside the quota core of use_questions and the admin writes
extVars == <<loginVars, lastPlan, payVars, docVars, connVars, opCount>>

dbVars == <<users, usage_logs, ip_usage>>
callVars == <<pc, args, user, ret, decOutcome, lastRead>>

(***************************************************************************)
(* Rows.                                                                   *)
(***************************************************************************)
UserRow(plan, qr, used, expiry, blocked) ==
    [plan_type |-> plan, questions_remaining |-> qr,
     questions_used_total |-> used, premium_expiry |-> expiry,
     is_blocked |-> blocked]

NoRows == <<>>

\* premium_expiry is NULL exactly for the rows that are not PREMIUM: every
\* write of PLAN_STATUS sets both columns together
RowsWith(blockedFlags) ==
    { UserRow(p, q, 0, NULL, b) :
        p \in {PLAN_FREE, PLAN_PRO}, q \in SeedQuotas, b \in blockedFlags }
    \cup
    { UserRow(PLAN_PREMIUM, q, 0, x, b) :
        q \in {0, PREMIUM_UNLIMITED}, x \in SeedExpiries, b \in blockedFlags }

SeedRows == RowsWith({FALSE})

(***************************************************************************)
(* connection.execute_query: a statement either runs (and, for a write, is *)
(* committed) or fails with a database error, in which case nothing is     *)
(* applied and None is returned.                                           *)
(***************************************************************************)
DbOutcomes == {"ok", "fail"}

MayFail(o) == o = "fail" => dbFailures < MaxFailures

CountFailure(o) == dbFailures' = IF o = "fail" THEN dbFailures + 1 ELSE dbFailures

\* return value of execute_query(..., fetch=False)
execute_query_write(o) == IF o = "ok" THEN "True" ELSE "None"

Truthy(r) == r = "True"

(***************************************************************************)
(* queries.get_user_by_email: <<>> is None, <<row>> is the dict.           *)
(***************************************************************************)
get_user_by_email(tbl, email, o) ==
    IF o = "ok" /\ email \in DOMAIN tbl THEN <<tbl[email]>> ELSE <<>>


(***************************************************************************)
(* usage_tracker.can_generate_questions.  The `user` argument is <<>> for  *)
(* None; t is datetime.now().                                              *)
(***************************************************************************)
ReasonNotFound == "User not found"
ReasonBlocked == "Your account has been blocked."
ReasonPremiumActive == "Premium access active"
ReasonPremiumExpired == "Your Premium subscription has expired. Please renew to continue."
ReasonFreeExhausted == "You've used all your free questions. Upgrade to PRO or PREMIUM for more!"
ReasonProExhausted == "You've used all your questions. Upgrade to PREMIUM for unlimited access!"
ReasonRemaining == "questions remaining"

Verdict(a, r) == [allowed |-> a, reason |-> r]

\* the quota branch taken first, whatever the blocked flag says
can_generate_questions_noblock(u, t) ==
    IF u = <<>> THEN Verdict(FALSE, ReasonNotFound)
    ELSE LET r == u[1] IN
      IF r.plan_type = PLAN_PREMIUM /\ r.premium_expiry # NULL
      THEN IF r.premium_expiry > t
           THEN Verdict(TRUE, ReasonPremiumActive)
           ELSE Verdict(FALSE, ReasonPremiumExpired)
      ELSE IF r.questions_remaining <= 0
      THEN IF r.plan_type = PLAN_FREE
           THEN Verdict(FALSE, ReasonFreeExhausted)
           ELSE Verdict(FALSE, ReasonProExhausted)
      ELSE Verdict(TRUE, ReasonRemaining)

\* PREMIUM decided by the quota column instead of the expiry
can_generate_questions_quotaonly(u, t) ==
    IF u = <<>> THEN Verdict(FALSE, ReasonNotFound)
    ELSE LET r == u[1] IN
      IF r.is_blocked THEN Verdict(FALSE, ReasonBlocked)
      ELSE IF r.questions_remaining <= 0
      THEN IF r.plan_type = PLAN_FREE
           THEN Verdict(FALSE, ReasonFreeExhausted)
           ELSE Verdict(FALSE, ReasonProExhausted)
      ELSE Verdict(TRUE, ReasonRemaining)

\* quota test off by one: a user with no questions left is still allowed
can_generate_questions_offbyone(u, t) ==
    IF u = <<>> THEN Verdict(FALSE, ReasonNotFound)
    ELSE LET r == u[1] IN
      IF r.is_blocked THEN Verdict(FALSE, ReasonBlocked)
      ELSE IF r.plan_type = PLAN_PREMIUM /\ r.premium_expiry # NULL
      THEN IF r.premium_expiry > t
           THEN Verdict(TRUE, ReasonPremiumActive)
           ELSE Verdict(FALSE, ReasonPremiumExpired)
      ELSE IF r.questions_remaining < 0
      THEN IF r.plan_type = PLAN_FREE
           THEN Verdict(FALSE, ReasonFreeExhausted)
           ELSE Verdict(FALSE, ReasonProExhausted)
      ELSE Verdict(TRUE, ReasonRemaining)

\* the expiry of a PREMIUM user looked at before the blocked flag
can_generate_questions_expiryfirst(u, t) ==
    IF u = <<>> THEN Verdict(FALSE, ReasonNotFound)
    ELSE LET r == u[1] IN
      IF r.plan_type = PLAN_PREMIUM /\ r.premium_expiry # NULL
         /\ r.premium_expiry <= t
      THEN Verdict(FALSE, ReasonPremiumExpired)
      ELSE IF r.is_blocked THEN Verdict(FALSE, ReasonBlocked)
      ELSE IF r.plan_type = PLAN_PREMIUM /\ r.premium_expiry # NULL
      THEN Verdict(TRUE, ReasonPremiumActive)
      ELSE IF r.questions_remaining <= 0
      THEN IF r.plan_type = PLAN_FREE
           THEN Verdict(FALSE, ReasonFreeExhausted)
           ELSE Verdict(FALSE, ReasonProExhausted)
      ELSE Verdict(TRUE, ReasonRemaining)

can_generate_questions(u, t) ==
    IF u = <<>> THEN Verdict(FALSE, ReasonNotFound)
    ELSE LET r == u[1] IN
      IF r.is_blocked THEN Verdict(FALSE, ReasonBlocked)
      ELSE IF r.plan_type = PLAN_PREMIUM /\ r.premium_expiry # NULL
      THEN IF r.premium_expiry > t
           THEN Verdict(TRUE, ReasonPremiumActive)
           ELSE Verdict(FALSE, ReasonPremiumExpired)
      ELSE IF r.questions_remaining <= 0
      THEN IF r.plan_type = PLAN_FREE
           THEN Verdict(FALSE, ReasonFreeExhausted)
           ELSE Verdict(FALSE, ReasonProExhausted)
      ELSE Verdict(TRUE, ReasonRemaining)

(***************************************************************************)
(* queries.decrement_user_questions: the UPDATE ... WHERE EMAIL = e AND    *)
(* QUESTIONS_REMAINING >= count statement, as a function on the table.     *)
(***************************************************************************)
DecrementMatches(tbl, email, count) ==
    email \in DOMAIN tbl /\ tbl[email].questions_remaining >= count

\* the statement without its QUESTIONS_REMAINING >= count condition
decrement_user_questions_unconditional(tbl, email, count) ==
    IF email \in DOMAIN tbl
    THEN [tbl EXCEPT ![email].questions_remaining = @ - count,
                     ![email].questions_used_total = @ + count]
    ELSE tbl

decrement_user_questions(tbl, email, count) ==
    IF DecrementMatches(tbl, email, count)
    THEN [tbl EXCEPT ![email].questions_remaining = @ - count,
                     ![email].questions_used_total = @ + count]
    ELSE tbl

(***************************************************************************)
(* queries.change_user_plan, adjust_user_quota, block_user: one UPDATE     *)
(* each, as functions on the table.  q = NULL is questions_remaining=None. *)
(***************************************************************************)
\* the expiry of the previous plan is left in place for FREE and PRO
change_user_plan_keepexpiry(tbl, email, new_plan, q, t) ==
    LET quota == IF q # NULL THEN q
                 ELSE IF new_plan = PLAN_FREE THEN FREE_QUESTION_LIMIT
                 ELSE IF new_plan = PLAN_PRO THEN PRO_QUESTION_BONUS
                 ELSE PREMIUM_UNLIMITED
    IN IF email \in DOMAIN tbl
       THEN [tbl EXCEPT ![email].plan_type = new_plan,
                        ![email].questions_remaining = quota,
                        ![email].premium_expiry =
                            IF new_plan = PLAN_PREMIUM
                            THEN t + PREMIUM_DURATION_DAYS ELSE @]
       ELSE tbl

change_user_plan(tbl, email, new_plan, q, t) ==
    LET quota == IF q # NULL THEN q
                 ELSE IF new_plan = PLAN_FREE THEN FREE_QUESTION_LIMIT
                 ELSE IF new_plan = PLAN_PRO THEN PRO_QUESTION_BONUS
                 ELSE PREMIUM_UNLIMITED
        expiry == IF new_plan = PLAN_PREMIUM
                  THEN t + PREMIUM_DURATION_DAYS ELSE NULL
    IN IF email \in DOMAIN tbl
       THEN [tbl EXCEPT ![email].plan_type = new_plan,
                        ![email].questions_remaining = quota,
                        ![email].premium_expiry = expiry]
       ELSE tbl

\* the statement with QUESTIONS_USED_TOTAL = 0 added to its SET list
adjust_user_quota_resetused(tbl, email, new_quota) ==
    IF email \in DOMAIN tbl
    THEN [tbl EXCEPT ![email].questions_remaining = new_quota,
                     ![email].questions_used_total = 0]
    ELSE tbl

adjust_user_quota(tbl, email, new_quota) ==
    IF email \in DOMAIN tbl
    THEN [tbl EXCEPT ![email].questions_remaining = new_quota]
    ELSE tbl

block_user(tbl, email, blocked) ==
    IF email \in DOMAIN tbl
    THEN [tbl EXCEPT ![email].is_blocked = blocked]
    ELSE tbl

(***************************************************************************)
(* queries.log_usage and queries.increment_ip_usage.                       *)
(***************************************************************************)
log_usage(logs, email, ip, count) ==
    Append(logs, [email |-> email, ip_address |-> ip,
                  questions_generated |-> count])

increment_ip_usage(tbl, ip, count) ==
    IF ip \in DOMAIN tbl
    THEN [tbl EXCEPT ![ip].questions_used_total = @ + count]
    ELSE tbl


(***************************************************************************)
(* cached_queries.cached_get_user_by_email under st.cache_data: a stored   *)
(* entry is returned without a query; otherwise the query runs and its     *)
(* return value, None included, is stored.                                 *)
(***************************************************************************)
CacheHit(cache, email) == email \in DOMAIN cache

cached_get_user_by_email(cache, tbl, email, o) ==
    IF CacheHit(cache, email) THEN cache[email]
    ELSE get_user_by_email(tbl, email, o)

CacheStore(cache, email, val) ==
    IF CacheHit(cache, email) THEN cache ELSE (email :> val) @@ cache

(***************************************************************************)
(* Initial state: the row of the email is absent or seeded, no request is  *)
(* running, the cache is empty.                                            *)
(***************************************************************************)
NoArgs == [email |-> "", ip_address |-> "", count |-> 0]

IpRow(used, blocked) == [questions_used_total |-> used, is_blocked |-> blocked]

\* a session outside get_or_create_user, an admin session with no payment
\* card open, and no execute_query call running
NoRet == [user |-> <<>>, message |-> ""]

NoLogin == [pc |-> "idle", email |-> "", ip_address |-> "",
            existing_user |-> <<>>, raced |-> FALSE, ret |-> NoRet]

NoCard == [pc |-> "idle", payment_id |-> 0, email |-> "", plan_requested |-> "",
           planChanged |-> FALSE, ret |-> "-"]

NoQuery == [pc |-> "idle", query |-> "", result |-> "-", trace |-> <<>>,
            opError |-> FALSE]

Admins == 1..NAdmins

InitLogin ==
    login = [p \in Procs |-> NoLogin]

InitPlan ==
    lastPlan = <<>>

InitPayments ==
    /\ payments = NoRows
    /\ card = [a \in Admins |-> NoCard]

InitDocuments ==
    /\ user_documents = NoRows
    /\ admin_documents = NoRows
    /\ userDocsCache = NoRows
    /\ adminDocsCache = <<>>
    /\ lastListing = <<>>

InitConnection ==
    /\ cachedConn = "unset"
    /\ dbReachable = TRUE
    /\ eq = NoQuery

\* no practice request running, no statement to retry, no save call running
InitFlows ==
    /\ practice = <<>>
    /\ retry = <<>>
    /\ save = <<>>
    /\ saved_rows = {}

NoTransaction == [pending |-> {}, durable |-> {}, aborted |-> FALSE]

InitSide ==
    /\ retrieval = <<>>
    /\ user_ip_history = <<>>
    /\ hist = <<>>
    /\ admin_actions = <<>>
    /\ del = <<>>
    /\ ttlCache = <<>>
    /\ lastLookup = <<>>
    /\ transaction = NoTransaction
    /\ xq = <<>>
    /\ InitFlows

InitCore ==
    /\ usage_logs = <<>>
    /\ ip_usage = [i \in IPs |-> IpRow(0, FALSE)]
    /\ userCache = NoRows
    /\ now = NowInit
    /\ pc = [p \in Procs |-> "idle"]
    /\ args = [p \in Procs |-> NoArgs]
    /\ user = [p \in Procs |-> <<>>]
    /\ ret = [p \in Procs |-> "-"]
    /\ lastEval = <<>>
    /\ seed = users
    /\ subtracted = 0
    /\ decOutcome = [p \in Procs |-> "none"]
    /\ lastRead = [p \in Procs |-> "none"]
    /\ calls = 0
    /\ adminOps = 0
    /\ dbFailures = 0
    /\ evals = 0
    /\ cacheReads = 0

OpKinds == {"login", "create", "write_create", "plan", "delete", "listing",
            "outage", "history", "lookup", "elapse", "query", "practice",
            "lost", "save"}

InitRest ==
    /\ InitCore
    /\ opCount = [k \in OpKinds |-> 0]
    /\ InitLogin
    /\ InitPlan
    /\ InitPayments
    /\ InitDocuments
    /\ InitSide
    /\ InitConnection

Init ==
    /\ users \in {NoRows} \cup { [e \in Emails |-> r] : r \in SeedRows }
    /\ InitRest

\* every kind of stored row, blocked ones included
InitEval ==
    /\ users \in { [e \in Emails |-> r] : r \in RowsWith(BOOLEAN) }
    /\ InitRest

(***************************************************************************)
(* usage_tracker.use_questions, statement by statement.                    *)
(***************************************************************************)
\* sessions are interchangeable (a returned call leaves nothing behind), so
\* the next request is given to the idle session with the lowest number
LowestIdle(p) == \A q \in Procs : q < p => pc[q] # "idle"

\* `user = cached_get_user_by_email(email)` in place of the direct read
UqGetUser_cached(p, e, ip, c, o) ==
    /\ pc[p] = "idle"
    /\ LowestIdle(p)
    /\ calls < MaxCalls
    /\ MayFail(o)
    /\ CacheHit(userCache, e) => o = "ok"
    /\ LET u == cached_get_user_by_email(userCache, users, e, o) IN
        /\ user' = [user EXCEPT ![p] = u]
        /\ userCache' = CacheStore(userCache, e, u)
        /\ lastRead' = [lastRead EXCEPT ![p] =
                           IF CacheHit(userCache, e) THEN "cache" ELSE "storage"]
        /\ IF u = <<>>
           THEN pc' = [pc EXCEPT ![p] = "done"] /\ ret' = [ret EXCEPT ![p] = "False"]
           ELSE pc' = [pc EXCEPT ![p] = "log"] /\ UNCHANGED ret
    /\ args' = [args EXCEPT ![p] = [email |-> e, ip_address |-> ip, count |-> c]]
    /\ decOutcome' = [decOutcome EXCEPT ![p] = "none"]
    /\ calls' = calls + 1
    /\ CountFailure(o)
    /\ UNCHANGED <<sideVars, extVars, dbVars, now, lastEval, seed, subtracted, adminOps,
                   evals, cacheReads>>

\* lines 126-130: user = get_user_by_email(email); if not user: return False
UqGetUser(p, e, ip, c, o) ==
    /\ pc[p] = "idle"
    /\ LowestIdle(p)
    /\ calls < MaxCalls
    /\ MayFail(o)
    /\ LET u == get_user_by_email(users, e, o) IN
        /\ user' = [user EXCEPT ![p] = u]
        /\ lastRead' = [lastRead EXCEPT ![p] = "storage"]
        /\ IF u = <<>>
           THEN pc' = [pc EXCEPT ![p] = "done"] /\ ret' = [ret EXCEPT ![p] = "False"]
           ELSE pc' = [pc EXCEPT ![p] = "log"] /\ UNCHANGED ret
    /\ args' = [args EXCEPT ![p] = [email |-> e, ip_address |-> ip, count |-> c]]
    /\ decOutcome' = [decOutcome EXCEPT ![p] = "none"]
    /\ calls' = calls + 1
    /\ CountFailure(o)
    /\ UNCHANGED <<sideVars, extVars, dbVars, userCache, now, lastEval, seed, subtracted,
                   adminOps, evals, cacheReads>>

\* line 133: log_usage(email, ip_address, count, ...)
UqLogUsage(p, o) ==
    /\ pc[p] = "log"
    /\ MayFail(o)
    /\ usage_logs' = IF o = "ok"
                     THEN log_usage(usage_logs, args[p].email,
                                    args[p].ip_address, args[p].count)
                     ELSE usage_logs
    /\ pc' = [pc EXCEPT ![p] = "ip"]
    /\ CountFailure(o)
    /\ UNCHANGED <<sideVars, extVars, users, ip_usage, userCache, now, args, user, ret, lastEval,
                   seed, subtracted, decOutcome, lastRead, calls, adminOps,
                   evals, cacheReads>>

\* line 136: increment_ip_usage(ip_address, count)
UqIncrementIpUsage(p, o) ==
    /\ pc[p] = "ip"
    /\ MayFail(o)
    /\ ip_usage' = IF o = "ok"
                   THEN increment_ip_usage(ip_usage, args[p].ip_address,
                                           args[p].count)
                   ELSE ip_usage
    /\ pc' = [pc EXCEPT ![p] = "premium"]
    /\ CountFailure(o)
    /\ UNCHANGED <<sideVars, extVars, users, usage_logs, userCache, now, args, user, ret,
                   lastEval, seed, subtracted, decOutcome, lastRead, calls,
                   adminOps, evals, cacheReads>>

\* lines 139-142: an unexpired PREMIUM user returns True without a decrement
PremiumActive(r, t) ==
    r.plan_type = PLAN_PREMIUM /\ r.premium_expiry # NULL /\ r.premium_expiry > t

UqPremiumCheck(p) ==
    /\ pc[p] = "premium"
    /\ IF PremiumActive(user[p][1], now)
       THEN pc' = [pc EXCEPT ![p] = "done"] /\ ret' = [ret EXCEPT ![p] = "True"]
       ELSE pc' = [pc EXCEPT ![p] = "dec"] /\ UNCHANGED ret
    /\ UNCHANGED <<sideVars, extVars, dbVars, userCache, now, args, user, lastEval, seed,
                   subtracted, decOutcome, lastRead, calls, adminOps,
                   dbFailures, evals, cacheReads>>

QuotaOf(tbl, e) == IF e \in DOMAIN tbl THEN tbl[e].questions_remaining ELSE 0

\* lines 145-147: result = decrement_user_questions(email, count); return result
UqDecrement(p, o) ==
    /\ pc[p] = "dec"
    /\ MayFail(o)
    /\ users' = IF o = "ok"
                THEN decrement_user_questions(users, args[p].email, args[p].count)
                ELSE users
    /\ subtracted' = subtracted + (QuotaOf(users, args[p].email)
                                   - QuotaOf(users', args[p].email))
    /\ decOutcome' = [decOutcome EXCEPT ![p] =
                        IF o = "fail" THEN "dberror"
                        ELSE IF users' # users THEN "applied" ELSE "nomatch"]
    /\ ret' = [ret EXCEPT ![p] = execute_query_write(o)]
    /\ pc' = [pc EXCEPT ![p] = "done"]
    /\ CountFailure(o)
    /\ UNCHANGED <<sideVars, extVars, usage_logs, ip_usage, userCache, now, args, user, lastEval,
                   seed, lastRead, calls, adminOps, evals, cacheReads>>

\* the call has returned; the session is ready for its next request
UqReturn(p) ==
    /\ pc[p] = "done"
    /\ pc' = [pc EXCEPT ![p] = "idle"]
    /\ args' = [args EXCEPT ![p] = NoArgs]
    /\ user' = [user EXCEPT ![p] = <<>>]
    /\ ret' = [ret EXCEPT ![p] = "-"]
    /\ decOutcome' = [decOutcome EXCEPT ![p] = "none"]
    /\ lastRead' = [lastRead EXCEPT ![p] = "none"]
    /\ UNCHANGED <<sideVars, extVars, dbVars, userCache, now, lastEval, seed, subtracted, calls,
                   adminOps, dbFailures, evals, cacheReads>>


(***************************************************************************)
(* Admin panel writes (pages/admin_panel.py render_users_tab): one UPDATE  *)
(* through queries.py, which evicts nothing from the cache.                *)
(***************************************************************************)
\* render_users_tab line 148: change_user_plan(email, new_plan)
AdminChangePlan(e, new_plan, o) ==
    /\ adminOps < MaxAdminOps
    /\ MayFail(o)
    /\ users' = IF o = "ok" THEN change_user_plan(users, e, new_plan, NULL, now)
                ELSE users
    /\ adminOps' = adminOps + 1
    /\ CountFailure(o)
    /\ UNCHANGED <<sideVars, extVars, usage_logs, ip_usage, userCache, now, callVars, lastEval,
                   seed, subtracted, calls, evals, cacheReads>>

AdminAdjustQuota(e, new_quota, o) ==
    /\ adminOps < MaxAdminOps
    /\ MayFail(o)
    /\ users' = IF o = "ok" THEN adjust_user_quota(users, e, new_quota)
                ELSE users
    /\ adminOps' = adminOps + 1
    /\ CountFailure(o)
    /\ UNCHANGED <<sideVars, extVars, usage_logs, ip_usage, userCache, now, callVars, lastEval,
                   seed, subtracted, calls, evals, cacheReads>>

AdminBlockUser(e, blocked, o) ==
    /\ adminOps < MaxAdminOps
    /\ MayFail(o)
    /\ users' = IF o = "ok" THEN block_user(users, e, blocked) ELSE users
    /\ adminOps' = adminOps + 1
    /\ CountFailure(o)
    /\ UNCHANGED <<sideVars, extVars, usage_logs, ip_usage, userCache, now, callVars, lastEval,
                   seed, subtracted, calls, evals, cacheReads>>

(***************************************************************************)
(* The entitlement evaluation of a request (pages/practice_exam.py lines   *)
(* 33-60): a direct read of the user followed by can_generate_questions.   *)
(***************************************************************************)
Evaluate(e, o) ==
    /\ evals < MaxEvals
    /\ MayFail(o)
    /\ LET u == get_user_by_email(users, e, o) IN
         lastEval' = <<[user |-> u, t |-> now,
                        verdict |-> can_generate_questions(u, now)]>>
    /\ evals' = evals + 1
    /\ CountFailure(o)
    /\ UNCHANGED <<sideVars, extVars, dbVars, userCache, now, callVars, seed, subtracted, calls,
                   adminOps, cacheReads>>

(***************************************************************************)
(* A call of cached_get_user_by_email, and the expiry of its entry after   *)
(* the 60 second time-to-live.                                             *)
(***************************************************************************)
CachedGetUser(e, o) ==
    /\ cacheReads < MaxCacheReads
    /\ MayFail(o)
    /\ CacheHit(userCache, e) => o = "ok"
    /\ userCache' = CacheStore(userCache, e,
                        cached_get_user_by_email(userCache, users, e, o))
    /\ cacheReads' = cacheReads + 1
    /\ CountFailure(o)
    /\ UNCHANGED <<sideVars, extVars, dbVars, now, callVars, lastEval, seed, subtracted, calls,
                   adminOps, evals>>

CacheTTLExpire ==
    /\ userCache # NoRows
    /\ userCache' = NoRows
    /\ UNCHANGED <<sideVars, extVars, dbVars, now, callVars, lastEval, seed, subtracted, calls,
                   adminOps, dbFailures, evals, cacheReads>>

\* the clock advances
Tick ==
    /\ now < MaxTime
    /\ now' = now + 1
    /\ UNCHANGED <<sideVars, extVars, dbVars, userCache, callVars, lastEval, seed, subtracted,
                   calls, adminOps, dbFailures, evals, cacheReads>>

UqNext ==
    \/ \E p \in Procs, e \in Emails, ip \in IPs, c \in Counts, o \in DbOutcomes :
          UqGetUser(p, e, ip, c, o)
    \/ \E p \in Procs, o \in DbOutcomes : UqLogUsage(p, o)
    \/ \E p \in Procs, o \in DbOutcomes : UqIncrementIpUsage(p, o)
    \/ \E p \in Procs : UqPremiumCheck(p)
    \/ \E p \in Procs, o \in DbOutcomes : UqDecrement(p, o)
    \/ \E p \in Procs : UqReturn(p)

Next ==
    \/ UqNext
    \/ \E e \in Emails, np \in Plans, o \in DbOutcomes : AdminChangePlan(e, np, o)
    \/ \E e \in Emails, q \in QuotaArgs, o \in DbOutcomes : AdminAdjustQuota(e, q, o)
    \/ \E e \in Emails, o \in DbOutcomes : CachedGetUser(e, o)
    \/ CacheTTLExpire
    \/ Tick

Spec == Init /\ [][Next]_vars

\* concurrent consumers alone against the seeded quota
NextConsume ==
    \/ UqNext
    \/ Tick

SpecConsume == Init /\ [][NextConsume]_vars

\* one batch size where the size of the batch does not matter: where
\* use_questions reads the user from, and what an evaluation answers, do not
\* depend on the count
CacheCounts == {5}

\* consumers next to readers of the user cache
NextCache ==
    \/ \E p \in Procs, e \in Emails, ip \in IPs, c \in CacheCounts,
          o \in DbOutcomes : UqGetUser(p, e, ip, c, o)
    \/ \E p \in Procs, o \in DbOutcomes : UqLogUsage(p, o)
    \/ \E p \in Procs, o \in DbOutcomes : UqIncrementIpUsage(p, o)
    \/ \E p \in Procs : UqPremiumCheck(p)
    \/ \E p \in Procs, o \in DbOutcomes : UqDecrement(p, o)
    \/ \E p \in Procs : UqReturn(p)
    \/ \E e \in Emails, o \in DbOutcomes : CachedGetUser(e, o)
    \/ CacheTTLExpire

\* PRO rows are left out: use_questions and the cache treat them as FREE rows
InitCache ==
    /\ users \in {NoRows} \cup
          { [e \in Emails |-> r] : r \in {x \in SeedRows : x.plan_type # PLAN_PRO} }
    /\ InitRest

SpecCache == InitCache /\ [][NextCache]_vars

\* the sequential request flow: evaluations and consumptions of one session,
\* with the admin's block switch
NextEval ==
    \/ \E e \in Emails, ip \in IPs, c \in CacheCounts, o \in DbOutcomes :
          UqGetUser(1, e, ip, c, o)
    \/ \E o \in DbOutcomes : UqLogUsage(1, o)
    \/ \E o \in DbOutcomes : UqIncrementIpUsage(1, o)
    \/ UqPremiumCheck(1)
    \/ \E o \in DbOutcomes : UqDecrement(1, o)
    \/ UqReturn(1)
    \/ \E e \in Emails, o \in DbOutcomes : Evaluate(e, o)
    \/ \E e \in Emails, b \in BOOLEAN, o \in DbOutcomes : AdminBlockUser(e, b, o)
    \/ Tick

SpecEval == InitEval /\ [][NextEval]_vars

TypeOK ==
    /\ DOMAIN users \subseteq Emails
    /\ \A e \in DOMAIN users : users[e].plan_type \in Plans
    /\ now \in NowInit..MaxTime
    /\ \A p \in Procs : pc[p] \in {"idle", "log", "ip", "premium", "dec", "done"}
    /\ \A p \in Procs : ret[p] \in {"-", "True", "False", "None"}


(***************************************************************************)
(* Properties.                                                             *)
(***************************************************************************)
FreeOrPro(r) == r.plan_type \in {PLAN_FREE, PLAN_PRO}

PremiumExpired(r, t) ==
    r.plan_type = PLAN_PREMIUM /\ r.premium_expiry # NULL /\ r.premium_expiry < t

RECURSIVE SumGenerated(_)
SumGenerated(logs) ==
    IF logs = <<>> THEN 0
    ELSE logs[1].questions_generated + SumGenerated(Tail(logs))

NoCallRunning == \A p \in Procs : pc[p] \in {"idle", "done"}

\* C1: for a FREE or PRO user seeded with quota Q, in every state reached by
\* interleaved use_questions calls questions_remaining is >= 0, and the
\* total subtracted from it by all calls is at most Q (the stored quota is Q
\* minus that total).
C1_QuotaNeverNegative ==
    \A e \in DOMAIN users :
        /\ users[e].questions_remaining >= 0
        /\ (adminOps = 0 /\ FreeOrPro(seed[e])) =>
              /\ subtracted >= 0
              /\ subtracted <= seed[e].questions_remaining
              /\ users[e].questions_remaining
                     = seed[e].questions_remaining - subtracted

\* two concurrent calls raced for the last batch: one took it, the other's
\* UPDATE matched no row, and the quota stands at 0
C1_Witness ==
    /\ \E p, q \in Procs :
          /\ pc[p] = "done" /\ decOutcome[p] = "applied"
          /\ pc[q] = "done" /\ decOutcome[q] = "nomatch"
          /\ user[p] = user[q]
    /\ \E e \in DOMAIN users :
          /\ FreeOrPro(seed[e])
          /\ seed[e].questions_remaining = 5
          /\ users[e].questions_remaining = 0
          /\ subtracted = 5

\* C2: when two concurrent calls for the same FREE/PRO user both read
\* questions_remaining equal to the batch size, at most one of the two
\* use_questions calls returns a truthy result.
C2_AtMostOneSucceeds ==
    \A p, q \in Procs :
        ( /\ p # q
          /\ pc[p] = "done" /\ pc[q] = "done"
          /\ adminOps = 0
          /\ user[p] # <<>> /\ user[q] # <<>>
          /\ args[p] = args[q]
          /\ FreeOrPro(user[p][1]) /\ FreeOrPro(user[q][1])
          /\ user[p][1].questions_remaining = args[p].count
          /\ user[q][1].questions_remaining = args[q].count )
        => ~(Truthy(ret[p]) /\ Truthy(ret[q]))

\* C3: the decrement is one conditional update: if at write time the row is
\* missing or holds less than count, the table is unchanged and the call
\* reports failure; otherwise exactly count moves from questions_remaining to
\* questions_used_total and the call reports success.
C3_ConditionalUpdate ==
    [][ \A p \in Procs :
          (pc[p] = "dec" /\ pc'[p] = "done" /\ dbFailures' = dbFailures) =>
            LET e == args[p].email
                c == args[p].count
            IN IF DecrementMatches(users, e, c)
               THEN /\ users' = [users EXCEPT
                                   ![e].questions_remaining = @ - c,
                                   ![e].questions_used_total = @ + c]
                    /\ Truthy(ret'[p])
               ELSE /\ users' = users
                    /\ ~Truthy(ret'[p])
      ]_vars

\* C5: use_questions fails closed: a failed user read or a failed decrement
\* write gives a non-truthy result and no decrement, and a truthy result for
\* a FREE/PRO user always comes with an applied decrement.
C5_FailClosed ==
    \A p \in Procs :
        pc[p] = "done" =>
            /\ user[p] = <<>> => (~Truthy(ret[p]) /\ decOutcome[p] = "none")
            /\ decOutcome[p] = "dberror" => ~Truthy(ret[p])
            /\ (Truthy(ret[p]) /\ user[p] # <<>> /\ FreeOrPro(user[p][1]))
                  => decOutcome[p] = "applied"

\* C6: no use_questions call decreases questions_remaining of a row that is
\* PREMIUM with premium_expiry in the future when the write is applied,
\* also when a plan change lands between the call's read and its write.
C6_NoDecrementForActivePremium ==
    [][ \A p \in Procs :
          (pc[p] = "dec" /\ pc'[p] = "done" /\ users' # users) =>
              ~PremiumActive(users[args[p].email], now)
      ]_vars

\* C7: the first evaluation or consumption for a user stored as PREMIUM with
\* premium_expiry in the past leaves the stored row FREE with
\* questions_remaining = 0.
Downgraded(e) ==
    /\ e \in DOMAIN users
    /\ users[e].plan_type = PLAN_FREE
    /\ users[e].questions_remaining = 0

C7_ExpiredPremiumDowngraded ==
    /\ \A p \in Procs :
          (pc[p] = "done" /\ user[p] # <<>> /\ PremiumExpired(user[p][1], now))
              => Downgraded(args[p].email)
    /\ (lastEval # <<>> /\ lastEval[1].user # <<>>
          /\ PremiumExpired(lastEval[1].user[1], lastEval[1].t))
              => \A e \in Emails : Downgraded(e)


\* C4: in every use_questions call the user is read directly from storage
\* (never from the cache) before the call's decrement is issued, and between
\* that read and the decrement no other value of the user is consulted.
C4_FreshReadBeforeDecrement ==
    [][ \A p \in Procs :
          /\ (pc[p] = "idle" /\ pc'[p] # "idle") =>
                /\ lastRead'[p] = "storage"
                /\ \/ user'[p] = <<>>
                   \/ /\ args'[p].email \in DOMAIN users
                      /\ user'[p] = <<users[args'[p].email]>>
          /\ (pc[p] # "idle" /\ pc'[p] # "idle") =>
                /\ lastRead'[p] = lastRead[p]
                /\ user'[p] = user[p]
          /\ (pc[p] = "dec" /\ pc'[p] = "done") => lastRead[p] = "storage"
      ]_vars

\* a call has decremented on the strength of its own read while the cache
\* held an older, different value of the same user
C4_Witness ==
    \E p \in Procs :
        /\ pc[p] = "done"
        /\ decOutcome[p] = "applied"
        /\ lastRead[p] = "storage"
        /\ CacheHit(userCache, args[p].email)
        /\ userCache[args[p].email] # <<>>
        /\ userCache[args[p].email] # user[p]

EvalUser == lastEval[1].user[1]
Evaluated == lastEval # <<>> /\ lastEval[1].user # <<>>

\* C8: for an unblocked PREMIUM user can_generate_questions allows exactly
\* when premium_expiry is strictly in the future, whatever
\* questions_remaining is, and a denial carries the renewal reason.
C8_PremiumDecidedByExpiry ==
    (Evaluated /\ EvalUser.plan_type = PLAN_PREMIUM /\ ~EvalUser.is_blocked) =>
        IF EvalUser.premium_expiry > lastEval[1].t
        THEN lastEval[1].verdict.allowed
        ELSE lastEval[1].verdict = Verdict(FALSE, ReasonPremiumExpired)

\* an expired PREMIUM user with a large quota left was denied
C8_Witness ==
    /\ Evaluated
    /\ EvalUser.plan_type = PLAN_PREMIUM
    /\ ~EvalUser.is_blocked
    /\ EvalUser.questions_remaining = PREMIUM_UNLIMITED
    /\ EvalUser.premium_expiry <= lastEval[1].t
    /\ ~lastEval[1].verdict.allowed

\* C9: a user whose is_blocked flag is set is never allowed, for every plan,
\* quota and expiry.
C9_BlockedNeverAllowed ==
    (Evaluated /\ EvalUser.is_blocked) => ~lastEval[1].verdict.allowed

\* a blocked, unexpired PREMIUM user was evaluated
C9_Witness ==
    /\ Evaluated
    /\ EvalUser.is_blocked
    /\ PremiumActive(EvalUser, lastEval[1].t)
    /\ lastEval[1].verdict = Verdict(FALSE, ReasonBlocked)

\* C10: an unblocked FREE or PRO user is allowed iff questions_remaining > 0;
\* and after k use_questions calls of count c, none hit by a database error,
\* against a FREE user seeded with k*c, the quota is 0 and an evaluation of
\* that row denies with the quota-exhausted reason.
ScenarioDone(e) ==
    /\ e \in DOMAIN users
    /\ seed[e].plan_type = PLAN_FREE
    /\ ~users[e].is_blocked
    /\ dbFailures = 0
    /\ NoCallRunning
    /\ usage_logs # <<>>
    /\ \A i \in 1..Len(usage_logs) :
          usage_logs[i].questions_generated = usage_logs[1].questions_generated
    /\ SumGenerated(usage_logs) = seed[e].questions_remaining

C10_FreeProAllowedIffQuota ==
    /\ (Evaluated /\ FreeOrPro(EvalUser) /\ ~EvalUser.is_blocked) =>
          (lastEval[1].verdict.allowed <=> EvalUser.questions_remaining > 0)
    /\ \A e \in Emails :
          ScenarioDone(e) =>
              /\ users[e].questions_remaining = 0
              /\ (lastEval # <<>> /\ lastEval[1].user = <<users[e]>>) =>
                    lastEval[1].verdict = Verdict(FALSE, ReasonFreeExhausted)

\* quota 10 was spent in two batches of 5 and the evaluation that followed
\* denied
C10_Witness ==
    \E e \in Emails :
        /\ ScenarioDone(e)
        /\ seed[e].questions_remaining = 10
        /\ Len(usage_logs) = 2
        /\ lastEval # <<>>
        /\ lastEval[1].user = <<users[e]>>
        /\ users[e].questions_remaining = 0
        /\ ~lastEval[1].verdict.allowed

(***************************************************************************)
(* The usage ledger and the cache of user rows.                            *)
(***************************************************************************)
IpTotal(ip) ==
    IF ip \in DOMAIN ip_usage THEN ip_usage[ip].questions_used_total ELSE 0

LoggedFor(ip) == SelectSeq(usage_logs, LAMBDA r : r.ip_address = ip)

Counted(kind) == opCount' = [opCount EXCEPT ![kind] = @ + 1]

\* C11: every use_questions invocation appends exactly one usage_logs row
\* with its email, ip and count and adds count to the ip_usage total of that
\* ip, whatever its decrement does: once every started call has returned
\* there are as many rows as calls, the totals match the rows, and a single
\* call leaves exactly its own row.
C11_OneLogRowPerInvocation ==
    /\ Len(usage_logs) <= calls
    /\ NoCallRunning =>
          /\ Len(usage_logs) = calls
          /\ \A ip \in IPs : IpTotal(ip) = SumGenerated(LoggedFor(ip))
    /\ \A p \in Procs :
          (calls = 1 /\ pc[p] = "done") =>
              usage_logs = <<[email |-> args[p].email,
                              ip_address |-> args[p].ip_address,
                              questions_generated |-> args[p].count]>>

\* C12: every write that changes a user row leaves the user-by-email cache
\* empty, so the next cached read returns the stored state; this holds in
\* particular for change_user_plan.
C12_WritesEvictUserCache ==
    [][ users' # users => userCache' = NoRows ]_vars

(***************************************************************************)
(* Documents: the USER_DOCUMENTS and ADMIN_DOCUMENTS tables, their direct  *)
(* listings (queries.py) and their cached listings (cached_queries.py).    *)
(* A listing is the set of the doc ids it returns.                         *)
(***************************************************************************)
DocIds == {1, 2}
AdminDocIds == {1, 2}

UserDocRow(email, deleted) == [email |-> email, is_deleted |-> deleted]
AdminDocRow(deleted) == [is_deleted |-> deleted]

\* SELECT ... WHERE EMAIL = %s AND IS_DELETED = FALSE; a failed read gives []
get_user_documents(tbl, email, o) ==
    IF o = "ok"
    THEN {d \in DOMAIN tbl : tbl[d].email = email /\ ~tbl[d].is_deleted}
    ELSE {}

\* SELECT ... WHERE IS_DELETED = FALSE
get_admin_documents(tbl, o) ==
    IF o = "ok" THEN {d \in DOMAIN tbl : ~tbl[d].is_deleted} ELSE {}

\* the update without its EMAIL condition
delete_user_document_anyowner(tbl, doc_id, email) ==
    [d \in DOMAIN tbl |->
        IF d = doc_id THEN [tbl[d] EXCEPT !.is_deleted = TRUE] ELSE tbl[d]]

\* UPDATE USER_DOCUMENTS SET IS_DELETED = TRUE WHERE DOC_ID = %s AND EMAIL = %s
delete_user_document(tbl, doc_id, email) ==
    [d \in DOMAIN tbl |->
        IF d = doc_id /\ tbl[d].email = email
        THEN [tbl[d] EXCEPT !.is_deleted = TRUE] ELSE tbl[d]]

\* UPDATE ADMIN_DOCUMENTS SET IS_DELETED = TRUE WHERE ADMIN_DOC_ID = %s
delete_admin_document(tbl, doc_id) ==
    [d \in DOMAIN tbl |->
        IF d = doc_id THEN [tbl[d] EXCEPT !.is_deleted = TRUE] ELSE tbl[d]]

\* st.cache_data(ttl=120), keyed by the email argument
cached_get_user_documents(cache, tbl, email, o) ==
    IF email \in DOMAIN cache THEN cache[email]
    ELSE get_user_documents(tbl, email, o)

\* st.cache_data(ttl=300), no argument: <<>> is the empty store
cached_get_admin_documents(cache, tbl, o) ==
    IF cache # <<>> THEN cache[1] ELSE get_admin_documents(tbl, o)

Listing(kind, cached, result) ==
    <<[kind |-> kind, cached |-> cached, result |-> result]>>

quotaVars == <<users, usage_logs, ip_usage, userCache, now, callVars, lastEval,
               seed, subtracted, calls, adminOps, evals, cacheReads>>

\* upload_reviewer.py line 228: delete_user_document(doc_id, email)
DeleteUserDocument(d, e, o) ==
    /\ opCount["delete"] < MaxDeletes
    /\ MayFail(o)
    /\ d \in DOMAIN user_documents
    /\ ~user_documents[d].is_deleted
    /\ user_documents' = IF o = "ok"
                         THEN delete_user_document(user_documents, d, e)
                         ELSE user_documents
    /\ Counted("delete")
    /\ CountFailure(o)
    /\ UNCHANGED <<sideVars, quotaVars, loginVars, lastPlan, payVars, connVars,
                   admin_documents, userDocsCache, adminDocsCache, lastListing>>

\* admin_panel.py line 411: delete_admin_document(doc_id)
DeleteAdminDocument(d, o) ==
    /\ opCount["delete"] < MaxDeletes
    /\ MayFail(o)
    /\ d \in DOMAIN admin_documents
    /\ ~admin_documents[d].is_deleted
    /\ admin_documents' = IF o = "ok"
                          THEN delete_admin_document(admin_documents, d)
                          ELSE admin_documents
    /\ Counted("delete")
    /\ CountFailure(o)
    /\ UNCHANGED <<sideVars, quotaVars, loginVars, lastPlan, payVars, connVars,
                   user_documents, userDocsCache, adminDocsCache, lastListing>>

GetUserDocuments(e, o) ==
    /\ opCount["listing"] < MaxListings
    /\ MayFail(o)
    /\ lastListing' = Listing("user", FALSE,
                              get_user_documents(user_documents, e, o))
    /\ Counted("listing")
    /\ CountFailure(o)
    /\ UNCHANGED <<sideVars, quotaVars, loginVars, lastPlan, payVars, connVars,
                   user_documents, admin_documents, userDocsCache,
                   adminDocsCache>>

GetAdminDocuments(o) ==
    /\ opCount["listing"] < MaxListings
    /\ MayFail(o)
    /\ lastListing' = Listing("admin", FALSE,
                              get_admin_documents(admin_documents, o))
    /\ Counted("listing")
    /\ CountFailure(o)
    /\ UNCHANGED <<sideVars, quotaVars, loginVars, lastPlan, payVars, connVars,
                   user_documents, admin_documents, userDocsCache,
                   adminDocsCache>>

\* a stored listing is returned without a query; otherwise the query runs and
\* its listing is stored
CachedGetUserDocuments(e, o) ==
    /\ opCount["listing"] < MaxListings
    /\ MayFail(o)
    /\ e \in DOMAIN userDocsCache => o = "ok"
    /\ LET r == cached_get_user_documents(userDocsCache, user_documents, e, o) IN
         /\ lastListing' = Listing("user", TRUE, r)
         /\ userDocsCache' = IF e \in DOMAIN userDocsCache THEN userDocsCache
                              ELSE (e :> r) @@ userDocsCache
    /\ Counted("listing")
    /\ CountFailure(o)
    /\ UNCHANGED <<sideVars, quotaVars, loginVars, lastPlan, payVars, connVars,
                   user_documents, admin_documents, adminDocsCache>>

CachedGetAdminDocuments(o) ==
    /\ opCount["listing"] < MaxListings
    /\ MayFail(o)
    /\ adminDocsCache # <<>> => o = "ok"
    /\ LET r == cached_get_admin_documents(adminDocsCache, admin_documents, o) IN
         /\ lastListing' = Listing("admin", TRUE, r)
         /\ adminDocsCache' = IF adminDocsCache # <<>> THEN adminDocsCache
                               ELSE <<r>>
    /\ Counted("listing")
    /\ CountFailure(o)
    /\ UNCHANGED <<sideVars, quotaVars, loginVars, lastPlan, payVars, connVars,
                   user_documents, admin_documents, userDocsCache>>

\* the time-to-live of a stored listing elapses
UserDocsCacheExpire ==
    /\ userDocsCache # NoRows
    /\ userDocsCache' = NoRows
    /\ UNCHANGED <<sideVars, quotaVars, dbFailures, loginVars, lastPlan, payVars,
                   connVars, opCount, user_documents, admin_documents,
                   adminDocsCache, lastListing>>

AdminDocsCacheExpire ==
    /\ adminDocsCache # <<>>
    /\ adminDocsCache' = <<>>
    /\ UNCHANGED <<sideVars, quotaVars, dbFailures, loginVars, lastPlan, payVars,
                   connVars, opCount, user_documents, admin_documents,
                   userDocsCache, lastListing>>

\* documents uploaded earlier, none of them deleted
InitDocs ==
    /\ users = NoRows
    /\ InitCore
    /\ opCount = [k \in OpKinds |-> 0]
    /\ InitLogin
    /\ InitPlan
    /\ InitPayments
    /\ InitSide
    /\ InitConnection
    /\ user_documents \in [DocIds -> {UserDocRow(e, FALSE) : e \in Emails}]
    /\ admin_documents = [d \in AdminDocIds |-> AdminDocRow(FALSE)]
    /\ userDocsCache = NoRows
    /\ adminDocsCache = <<>>
    /\ lastListing = <<>>

NextDocs ==
    \/ \E d \in DocIds, e \in Emails, o \in DbOutcomes : DeleteUserDocument(d, e, o)
    \/ \E d \in AdminDocIds, o \in DbOutcomes : DeleteAdminDocument(d, o)
    \/ \E e \in Emails, o \in DbOutcomes : GetUserDocuments(e, o)
    \/ \E o \in DbOutcomes : GetAdminDocuments(o)
    \/ \E e \in Emails, o \in DbOutcomes : CachedGetUserDocuments(e, o)
    \/ \E o \in DbOutcomes : CachedGetAdminDocuments(o)
    \/ UserDocsCacheExpire
    \/ AdminDocsCacheExpire

SpecDocs == InitDocs /\ [][NextDocs]_vars

IsDeleted(kind, d) ==
    IF kind = "user" THEN user_documents[d].is_deleted
    ELSE admin_documents[d].is_deleted

\* C13: a listing never returns a document that was soft-deleted before it:
\* neither a direct listing nor a cached one, also when the cached listing
\* was stored before the delete and has not expired.
C13_DeletedNeverListed ==
    [][ opCount'["listing"] # opCount["listing"] =>
            \A d \in lastListing'[1].result :
                ~IsDeleted(lastListing'[1].kind, d) ]_vars

(***************************************************************************)
(* The connection manager (database/connection.py).                        *)
(*                                                                         *)
(* cachedConn is the st.cache_resource store of get_connection: "unset"    *)
(* (nothing stored), "None" (a failed connect, stored like any result),    *)
(* "live" (a connection whose link to the server works) or "lost" (a       *)
(* connection whose link is gone).  eq.trace lists what the running        *)
(* execute_query call did to the connection, in order.                     *)
(***************************************************************************)
\* a fetch=True statement and a fetch=False statement
Queries == {"select", "update"}

\* lines 23-43: the stored value if there is one, else psycopg2.connect,
\* whose result (None when it raises) is stored
get_connection(cache, reachable) ==
    IF cache # "unset" THEN cache
    ELSE IF reachable THEN "live" ELSE "None"

\* lines 94-98 and 121-125: fetchall() rows, or True after commit()
QueryResult(q) == IF q = "select" THEN "rows" ELSE execute_query_write("ok")

\* the handler forgets the rollback of the open transaction
on_operational_error_norollback(trace) == trace \o <<"clear", "connect">>

\* lines 106-114: conn.rollback(), st.cache_resource.clear(), get_connection()
on_operational_error(trace) == trace \o <<"rollback", "clear", "connect">>

connRest == <<quotaVars, loginVars, lastPlan, payVars, docVars>>

\* line 78: the call begins
EqStart(q) ==
    /\ eq.pc = "idle"
    /\ eq' = [NoQuery EXCEPT !.pc = "validate", !.query = q]
    /\ UNCHANGED <<sideVars, connRest, dbFailures, opCount, cachedConn, dbReachable>>

\* lines 80-82 with _get_valid_connection (lines 46-63): a stored None is
\* returned as it is; poll() on a lost connection either notices the loss
\* (the store is cleared and get_connection called again) or does not
EqGetValidConnection(noticed) ==
    /\ eq.pc = "validate"
    /\ noticed => cachedConn = "lost"
    /\ LET conn == get_connection(cachedConn, dbReachable)
           t1 == IF cachedConn = "unset" THEN <<"connect">> ELSE <<>>
           conn2 == get_connection("unset", dbReachable)
       IN IF conn = "None"
          THEN /\ cachedConn' = conn
               /\ eq' = [eq EXCEPT !.pc = "done", !.result = "None", !.trace = t1]
          ELSE IF noticed
          THEN /\ cachedConn' = conn2
               /\ eq' = [eq EXCEPT
                            !.pc = IF conn2 = "None" THEN "done" ELSE "execute",
                            !.result = IF conn2 = "None" THEN "None" ELSE "-",
                            !.trace = t1 \o <<"clear", "connect">>]
          ELSE /\ cachedConn' = conn
               /\ eq' = [eq EXCEPT !.pc = "execute", !.trace = t1]
    /\ UNCHANGED <<sideVars, connRest, dbFailures, opCount, dbReachable>>

\* lines 85-104 and 129-135: the statement runs; on a lost connection it
\* raises OperationalError; any other error is rolled back and gives None
EqExecute(o) ==
    /\ eq.pc = "execute"
    /\ MayFail(o)
    /\ cachedConn = "lost" => o = "ok"
    /\ IF cachedConn = "lost"
       THEN eq' = [eq EXCEPT !.pc = "recover", !.opError = TRUE,
                             !.trace = @ \o <<"execute">>]
       ELSE IF o = "ok"
       THEN eq' = [eq EXCEPT !.pc = "done", !.result = QueryResult(eq.query),
                             !.trace = @ \o <<"execute">>]
       ELSE eq' = [eq EXCEPT !.pc = "done", !.result = "None",
                             !.trace = @ \o <<"execute", "rollback">>]
    /\ CountFailure(o)
    /\ UNCHANGED <<sideVars, connRest, opCount, cachedConn, dbReachable>>

\* lines 106-115: rollback, discard the stored connection, connect again
EqReconnect ==
    /\ eq.pc = "recover"
    /\ LET conn == get_connection("unset", dbReachable) IN
         /\ cachedConn' = conn
         /\ eq' = [eq EXCEPT
                      !.pc = IF conn = "None" THEN "done" ELSE "retry",
                      !.result = IF conn = "None" THEN "None" ELSE "-",
                      !.trace = on_operational_error(@)]
    /\ UNCHANGED <<sideVars, connRest, dbFailures, opCount, dbReachable>>

\* lines 116-128: the statement once more; whatever it raises gives None
EqRetry(o) ==
    /\ eq.pc = "retry"
    /\ MayFail(o)
    /\ cachedConn = "lost" => o = "ok"
    /\ eq' = [eq EXCEPT
                 !.pc = "done",
                 !.result = IF cachedConn = "live" /\ o = "ok"
                            THEN QueryResult(eq.query) ELSE "None",
                 !.trace = @ \o <<"execute">>]
    /\ CountFailure(o)
    /\ UNCHANGED <<sideVars, connRest, opCount, cachedConn, dbReachable>>

\* the call has returned
EqReturn ==
    /\ eq.pc = "done"
    /\ eq' = NoQuery
    /\ UNCHANGED <<sideVars, connRest, dbFailures, opCount, cachedConn, dbReachable>>

\* the server becomes unreachable: an open connection is lost with it
DbGoesDown ==
    /\ dbReachable
    /\ opCount["outage"] < MaxOutages
    /\ dbReachable' = FALSE
    /\ cachedConn' = IF cachedConn = "live" THEN "lost" ELSE cachedConn
    /\ Counted("outage")
    /\ UNCHANGED <<sideVars, connRest, dbFailures, eq>>

\* the server is reachable again; a lost connection stays lost
DbComesUp ==
    /\ ~dbReachable
    /\ dbReachable' = TRUE
    /\ UNCHANGED <<sideVars, connRest, dbFailures, opCount, cachedConn, eq>>

\* the server closes the open connection (idle timeout) and stays reachable
ConnectionDropped ==
    /\ cachedConn = "live"
    /\ opCount["outage"] < MaxOutages
    /\ cachedConn' = "lost"
    /\ Counted("outage")
    /\ UNCHANGED <<sideVars, connRest, dbFailures, dbReachable, eq>>

\* the process starts with nothing stored, the server reachable or not
InitConn ==
    /\ users = NoRows
    /\ InitCore
    /\ opCount = [k \in OpKinds |-> 0]
    /\ InitLogin
    /\ InitPlan
    /\ InitPayments
    /\ InitDocuments
    /\ InitSide
    /\ cachedConn = "unset"
    /\ dbReachable \in BOOLEAN
    /\ eq = NoQuery

EqNext ==
    \/ \E q \in Queries : EqStart(q)
    \/ \E noticed \in BOOLEAN : EqGetValidConnection(noticed)
    \/ \E o \in DbOutcomes : EqExecute(o)
    \/ EqReconnect
    \/ \E o \in DbOutcomes : EqRetry(o)
    \/ EqReturn

NextConn ==
    \/ EqNext
    \/ DbGoesDown
    \/ DbComesUp
    \/ ConnectionDropped

SpecConn == InitConn /\ [][NextConn]_vars

\* execute_query is straight-line blocking code, so a started call runs to
\* its return; the application keeps issuing calls; and an outage ends
SpecConnFair ==
    /\ SpecConn
    /\ WF_vars(EqNext)
    /\ WF_vars(DbComesUp)

Executions(trace) == Len(SelectSeq(trace, LAMBDA ev : ev = "execute"))

FirstExecute(trace) ==
    CHOOSE i \in 1..Len(trace) :
        /\ trace[i] = "execute"
        /\ \A j \in 1..(i - 1) : trace[j] # "execute"

\* what the call did after its first attempt of the statement
AfterFailure(trace) == SubSeq(trace, FirstExecute(trace) + 1, Len(trace))

\* C14: in an execute_query call whose statement fails with a connectivity
\* failure, the rollback comes first, then the stored connection is
\* discarded and recreated exactly once, then the statement is retried
\* exactly once on the fresh connection (never more than two attempts); a
\* failed retry gives None, and the call always returns a value.
C14_RollbackReconnectRetryOnce ==
    (eq.pc = "done" /\ eq.opError) =>
        LET after == AfterFailure(eq.trace) IN
        /\ Len(after) >= 3
        /\ SubSeq(after, 1, 3) = <<"rollback", "clear", "connect">>
        /\ IF cachedConn = "None"
           THEN after = <<"rollback", "clear", "connect">>
           ELSE after = <<"rollback", "clear", "connect", "execute">>
        /\ Executions(eq.trace) <= 2
        /\ eq.result \in {"None", QueryResult(eq.query)}
        /\ (eq.result = "None" /\ cachedConn # "None") =>
              Executions(eq.trace) = 2

\* the connection was lost under the call, the retry on the fresh connection
\* returned the rows
C14_Witness ==
    /\ eq.pc = "done"
    /\ eq.opError
    /\ eq.query = "select"
    /\ eq.result = "rows"
    /\ eq.trace = <<"execute", "rollback", "clear", "connect", "execute">>

\* C15: the connection manager always recovers: once the database stays
\* reachable, execute_query calls succeed again, whatever failures came
\* before (a failed first connect and a failed reconnect included).
C15_ManagerRecovers ==
    <>[]dbReachable => []<>(eq.pc = "done" /\ eq.result # "None")

(***************************************************************************)
(* Payments: the PAYMENTS table, approve_payment and reject_payment        *)
(* (queries.py), the payment card of the admin panel, and delete_user.     *)
(* services/payment_handler.py, which the card calls, applies the plan     *)
(* change first and marks the payment approved only after it succeeded.    *)
(***************************************************************************)
PAYMENT_PENDING == "PENDING"
PAYMENT_APPROVED == "APPROVED"
PAYMENT_REJECTED == "REJECTED"

PaymentIds == {1}
Notes == {"n1", "n2"}
\* plans a payment can request
PaidPlans == {PLAN_PRO, PLAN_PREMIUM}

PaymentRow(email, plan, status, notes, by, at) ==
    [email |-> email, plan_requested |-> plan, status |-> status,
     admin_notes |-> notes, approved_by |-> by, approved_at |-> at]

\* UPDATE PAYMENTS SET STATUS = 'APPROVED', ADMIN_NOTES, APPROVED_AT,
\* APPROVED_BY WHERE PAYMENT_ID = %s
approve_payment(tbl, payment_id, admin_notes, approved_by, t) ==
    IF payment_id \in DOMAIN tbl
    THEN [tbl EXCEPT ![payment_id].status = PAYMENT_APPROVED,
                     ![payment_id].admin_notes = admin_notes,
                     ![payment_id].approved_at = t,
                     ![payment_id].approved_by = approved_by]
    ELSE tbl

reject_payment(tbl, payment_id, admin_notes, approved_by, t) ==
    IF payment_id \in DOMAIN tbl
    THEN [tbl EXCEPT ![payment_id].status = PAYMENT_REJECTED,
                     ![payment_id].admin_notes = admin_notes,
                     ![payment_id].approved_at = t,
                     ![payment_id].approved_by = approved_by]
    ELSE tbl

\* DELETE FROM <table> WHERE EMAIL = %s
DeleteWhereEmail(tbl, email) ==
    [k \in {x \in DOMAIN tbl : tbl[x].email # email} |-> tbl[k]]

payRest == <<usage_logs, ip_usage, userCache, callVars, lastEval, seed,
             subtracted, calls, evals, cacheReads, loginVars, lastPlan,
             docVars, connVars, opCount>>

\* render_payment_card with is_pending: the card of a payment that the
\* pending listing returned, with its Approve and Reject buttons
RenderPaymentCard(a, pid) ==
    /\ card[a].pc = "idle"
    /\ \A b \in Admins : b < a => card[b].pc # "idle"
    /\ pid \in DOMAIN payments
    /\ payments[pid].status = PAYMENT_PENDING
    /\ card' = [card EXCEPT ![a] =
                   [NoCard EXCEPT !.pc = "open", !.payment_id = pid,
                                  !.email = payments[pid].email,
                                  !.plan_requested = payments[pid].plan_requested]]
    /\ UNCHANGED <<sideVars, users, payments, now, adminOps, dbFailures, payRest>>

\* process_payment_approval, first step: change_user_plan for the requester;
\* a result that is not truthy ends the handler with a failure message
PayChangePlan(a, o) ==
    /\ card[a].pc = "open"
    /\ MayFail(o)
    /\ users' = IF o = "ok"
                THEN change_user_plan(users, card[a].email,
                                      card[a].plan_requested, NULL, now)
                ELSE users
    /\ card' = [card EXCEPT
                   ![a].planChanged = (o = "ok" /\ card[a].email \in DOMAIN users),
                   ![a].pc = IF Truthy(execute_query_write(o))
                             THEN "mark" ELSE "done",
                   ![a].ret = IF Truthy(execute_query_write(o))
                              THEN "-" ELSE "False"]
    /\ CountFailure(o)
    /\ UNCHANGED <<sideVars, payments, now, adminOps, payRest>>

\* process_payment_approval, second step: approve_payment
PayApprove(a, notes, o) ==
    /\ card[a].pc = "mark"
    /\ MayFail(o)
    /\ payments' = IF o = "ok"
                   THEN approve_payment(payments, card[a].payment_id, notes,
                                        "admin", now)
                   ELSE payments
    /\ card' = [card EXCEPT ![a].pc = "done",
                            ![a].ret = IF Truthy(execute_query_write(o))
                                       THEN "True" ELSE "False"]
    /\ CountFailure(o)
    /\ UNCHANGED <<sideVars, users, now, adminOps, payRest>>

\* process_payment_rejection: reject_payment
PayReject(a, notes, o) ==
    /\ card[a].pc = "open"
    /\ MayFail(o)
    /\ payments' = IF o = "ok"
                   THEN reject_payment(payments, card[a].payment_id, notes,
                                       "admin", now)
                   ELSE payments
    /\ card' = [card EXCEPT ![a].pc = "done",
                            ![a].ret = IF Truthy(execute_query_write(o))
                                       THEN "True" ELSE "False"]
    /\ CountFailure(o)
    /\ UNCHANGED <<sideVars, users, now, adminOps, payRest>>

\* the handler has returned and the page is drawn again
PayClose(a) ==
    /\ card[a].pc = "done"
    /\ card' = [card EXCEPT ![a] = NoCard]
    /\ UNCHANGED <<sideVars, users, payments, now, adminOps, dbFailures, payRest>>

\* queries.delete_user (admin_panel.py line 192): one DELETE per table, the
\* result of the first four ignored; `failed` is the statement that fails
DeleteSteps == {"logs", "docs", "payments", "users"}

DeleteUser(e, failed) ==
    /\ adminOps < MaxAdminOps
    /\ failed # "none" => dbFailures < MaxFailures
    /\ usage_logs' = IF failed = "logs" THEN usage_logs
                     ELSE SelectSeq(usage_logs, LAMBDA r : r.email # e)
    /\ user_documents' = IF failed = "docs" THEN user_documents
                         ELSE DeleteWhereEmail(user_documents, e)
    /\ payments' = IF failed = "payments" THEN payments
                   ELSE DeleteWhereEmail(payments, e)
    /\ users' = IF failed = "users" THEN users
                ELSE [k \in DOMAIN users \ {e} |-> users[k]]
    /\ dbFailures' = IF failed = "none" THEN dbFailures ELSE dbFailures + 1
    /\ adminOps' = adminOps + 1
    /\ UNCHANGED <<sideVars, ip_usage, userCache, now, callVars, lastEval, seed,
                   subtracted, calls, evals, cacheReads, loginVars, lastPlan,
                   card, admin_documents, userDocsCache, adminDocsCache,
                   lastListing, connVars, opCount>>

\* the clock of the admin panel
PayTick ==
    /\ now < MaxTime
    /\ now' = now + 1
    /\ UNCHANGED <<sideVars, users, payments, card, adminOps, dbFailures, payRest>>

\* a user with a pending payment request
InitPay ==
    /\ users \in { [e \in Emails |-> r] :
                      r \in {x \in SeedRows : x.plan_type = PLAN_FREE} }
    /\ InitCore
    /\ opCount = [k \in OpKinds |-> 0]
    /\ InitLogin
    /\ InitPlan
    /\ InitDocuments
    /\ InitSide
    /\ InitConnection
    /\ payments \in [PaymentIds ->
                        { PaymentRow(e, p, PAYMENT_PENDING, "", "", NULL) :
                            e \in Emails, p \in PaidPlans }]
    /\ card = [a \in Admins |-> NoCard]

NextPay ==
    \/ \E a \in Admins, pid \in PaymentIds : RenderPaymentCard(a, pid)
    \/ \E a \in Admins, o \in DbOutcomes : PayChangePlan(a, o)
    \/ \E a \in Admins, n \in Notes, o \in DbOutcomes : PayApprove(a, n, o)
    \/ \E a \in Admins, n \in Notes, o \in DbOutcomes : PayReject(a, n, o)
    \/ \E a \in Admins : PayClose(a)
    \/ \E e \in Emails, f \in DeleteSteps \cup {"none"} : DeleteUser(e, f)
    \/ PayTick

SpecPay == InitPay /\ [][NextPay]_vars

\* C16: a payment becomes APPROVED only in a handler whose plan change for
\* the requester succeeded (its UPDATE was committed on the requester's
\* row), and a handler whose change_user_plan step failed leaves the payment
\* PENDING.
C16_ApprovedOnlyAfterPlanChange ==
    [][ \A pid \in DOMAIN payments :
          ( /\ pid \in DOMAIN payments'
            /\ payments[pid].status # PAYMENT_APPROVED
            /\ payments'[pid].status = PAYMENT_APPROVED )
          => \E a \in Admins :
                /\ card[a].pc = "mark"
                /\ card[a].payment_id = pid
                /\ card[a].planChanged
      ]_vars

\* C17: APPROVED and REJECTED are terminal: once a payment has one of them,
\* no approve_payment or reject_payment call changes its status, admin
\* notes, approver or resolution timestamp.
C17_ResolvedPaymentNeverChanges ==
    [][ \A pid \in DOMAIN payments :
          ( /\ pid \in DOMAIN payments'
            /\ payments[pid].status # PAYMENT_PENDING )
          => payments'[pid] = payments[pid]
      ]_vars

(***************************************************************************)
(* Login: usage_tracker.get_or_create_user, statement by statement, with   *)
(* queries.create_user, check_premium_expiry and update_user_plan, and     *)
(* cached_queries.write_create_user.  EMAIL is the primary key of USERS.   *)
(***************************************************************************)
MsgIpBlocked == "This IP address has been blocked. Please contact support."
MsgBlocked == "This account has been blocked. Please contact support."
MsgWelcome == "Welcome back!"
MsgCreated == "Account created successfully!"
MsgCreateFailed == "Failed to create account. Please try again."

\* VALUES (email, ip_address, PLAN_FREE, FREE_QUESTION_LIMIT); the other
\* columns take their defaults
NewUserRow == UserRow(PLAN_FREE, FREE_QUESTION_LIMIT, 0, NULL, FALSE)

\* the INSERT replaces the row that is already there
insert_user_overwrite(tbl, email) ==
    [e \in DOMAIN tbl \cup {email} |->
        IF e = email THEN NewUserRow ELSE tbl[e]]

\* INSERT INTO USERS: a second row with the same EMAIL is not stored, be it
\* refused (create_user) or skipped (ON CONFLICT DO NOTHING)
insert_user(tbl, email) ==
    IF email \in DOMAIN tbl THEN tbl
    ELSE [e \in DOMAIN tbl \cup {email} |->
             IF e = email THEN NewUserRow ELSE tbl[e]]

\* queries.create_user: the email, or None when the INSERT raised
create_user(tbl, email, o) ==
    IF o = "ok" /\ email \notin DOMAIN tbl THEN "True" ELSE "None"

\* cached_queries.write_create_user: ON CONFLICT (email) DO NOTHING succeeds
write_create_user(tbl, email, o) == execute_query_write(o)

\* queries.update_user_plan: one UPDATE of plan, quota and expiry
update_user_plan(tbl, email, plan_type, q, expiry, t) ==
    LET x == IF plan_type = PLAN_PREMIUM /\ expiry = NULL
             THEN t + PREMIUM_DURATION_DAYS ELSE expiry
    IN IF email \in DOMAIN tbl
       THEN [tbl EXCEPT ![email].plan_type = plan_type,
                        ![email].questions_remaining = q,
                        ![email].premium_expiry = x]
       ELSE tbl

\* queries.is_ip_blocked: a failed read or a missing row gives False
is_ip_blocked(tbl, ip, o) ==
    o = "ok" /\ ip \in DOMAIN tbl /\ tbl[ip].is_blocked

\* log_ip_usage: INSERT INTO IP_USAGE when the ip has no row yet
log_ip_usage(tbl, ip) ==
    IF ip \in DOMAIN tbl THEN tbl
    ELSE [i \in DOMAIN tbl \cup {ip} |->
             IF i = ip THEN IpRow(0, FALSE) ELSE tbl[i]]

loginRest == <<usage_logs, userCache, now, callVars, lastEval, seed,
               subtracted, calls, adminOps, evals, cacheReads, lastPlan,
               payVars, docVars, connVars>>

Returned(p, u, msg) ==
    login' = [login EXCEPT ![p].pc = "done",
                           ![p].ret = [user |-> u, message |-> msg]]

\* lines 33-37: ip_address = get_client_ip(); if is_ip_blocked(ip_address)
LgIpBlocked(p, e, ip, o) ==
    /\ login[p].pc = "idle"
    /\ \A q \in Procs : q < p => login[q].pc # "idle"
    /\ opCount["login"] < MaxLogins
    /\ MayFail(o)
    /\ login' = [login EXCEPT ![p] =
                    IF is_ip_blocked(ip_usage, ip, o)
                    THEN [NoLogin EXCEPT !.pc = "done", !.email = e,
                             !.ip_address = ip,
                             !.ret = [user |-> <<>>, message |-> MsgIpBlocked]]
                    ELSE [NoLogin EXCEPT !.pc = "get", !.email = e,
                             !.ip_address = ip]]
    /\ Counted("login")
    /\ CountFailure(o)
    /\ UNCHANGED <<sideVars, users, ip_usage, loginRest>>

\* lines 40-45: existing_user = get_user_by_email(email)
LgGetUser(p, o) ==
    /\ login[p].pc = "get"
    /\ MayFail(o)
    /\ LET u == get_user_by_email(users, login[p].email, o) IN
         IF u = <<>>
         THEN login' = [login EXCEPT ![p].pc = "create"]
         ELSE IF u[1].is_blocked
         THEN Returned(p, <<>>, MsgBlocked)
         ELSE login' = [login EXCEPT ![p].pc = "update_ip",
                                     ![p].existing_user = u]
    /\ CountFailure(o)
    /\ UNCHANGED <<sideVars, users, ip_usage, opCount, loginRest>>

\* lines 48-56: update_user_ip(email, ip_address), which writes IP_ADDRESS
\* and USER_IP_HISTORY only; a user who is not PREMIUM is returned
LgUpdateIp(p, o) ==
    /\ login[p].pc = "update_ip"
    /\ MayFail(o)
    /\ IF login[p].existing_user[1].plan_type = PLAN_PREMIUM
       THEN login' = [login EXCEPT ![p].pc = "expiry"]
       ELSE Returned(p, login[p].existing_user, MsgWelcome)
    /\ CountFailure(o)
    /\ UNCHANGED <<sideVars, users, ip_usage, opCount, loginRest>>

\* check_premium_expiry, lines 184-186: the user is read again
LgCheckExpiry(p, o) ==
    /\ login[p].pc = "expiry"
    /\ MayFail(o)
    /\ LET u == get_user_by_email(users, login[p].email, o) IN
         login' = [login EXCEPT ![p].pc =
                      IF /\ u # <<>>
                         /\ u[1].plan_type = PLAN_PREMIUM
                         /\ u[1].premium_expiry # NULL
                         /\ u[1].premium_expiry < now
                      THEN "downgrade" ELSE "refresh"]
    /\ CountFailure(o)
    /\ UNCHANGED <<sideVars, users, ip_usage, opCount, loginRest>>

\* check_premium_expiry, line 188: update_user_plan(email, PLAN_FREE, 0, None)
LgDowngrade(p, o) ==
    /\ login[p].pc = "downgrade"
    /\ MayFail(o)
    /\ users' = IF o = "ok"
                THEN update_user_plan(users, login[p].email, PLAN_FREE, 0,
                                      NULL, now)
                ELSE users
    /\ login' = [login EXCEPT ![p].pc = "refresh"]
    /\ CountFailure(o)
    /\ UNCHANGED <<sideVars, ip_usage, opCount, loginRest>>

\* the record read at line 40 is returned, without the re-read of line 54
LgRefresh_norefresh(p, o) ==
    /\ login[p].pc = "refresh"
    /\ MayFail(o)
    /\ Returned(p, login[p].existing_user, MsgWelcome)
    /\ CountFailure(o)
    /\ UNCHANGED <<sideVars, users, ip_usage, opCount, loginRest>>

\* lines 54-56: existing_user = get_user_by_email(email); return it
LgRefresh(p, o) ==
    /\ login[p].pc = "refresh"
    /\ MayFail(o)
    /\ Returned(p, get_user_by_email(users, login[p].email, o), MsgWelcome)
    /\ CountFailure(o)
    /\ UNCHANGED <<sideVars, users, ip_usage, opCount, loginRest>>

\* lines 59-65 with create_user: the INSERT, then log_ip_history and
\* log_ip_usage when it succeeded; None ends the login with a failure
LgCreateUser(p, o) ==
    /\ login[p].pc = "create"
    /\ MayFail(o)
    /\ users' = IF o = "ok" THEN insert_user(users, login[p].email) ELSE users
    /\ IF Truthy(create_user(users, login[p].email, o))
       THEN /\ ip_usage' = log_ip_usage(ip_usage, login[p].ip_address)
            /\ login' = [login EXCEPT ![p].pc = "read_new"]
       ELSE /\ ip_usage' = ip_usage
            /\ login' = [login EXCEPT
                            ![p].pc = "done",
                            ![p].raced = login[p].email \in DOMAIN users,
                            ![p].ret = [user |-> <<>>,
                                        message |-> MsgCreateFailed]]
    /\ Counted("create")
    /\ CountFailure(o)
    /\ UNCHANGED <<sideVars, loginRest>>

\* lines 62-63: new_user = get_user_by_email(email); return it
LgReadNew(p, o) ==
    /\ login[p].pc = "read_new"
    /\ MayFail(o)
    /\ Returned(p, get_user_by_email(users, login[p].email, o), MsgCreated)
    /\ CountFailure(o)
    /\ UNCHANGED <<sideVars, users, ip_usage, opCount, loginRest>>

\* the call has returned
LgReturn(p) ==
    /\ login[p].pc = "done"
    /\ login' = [login EXCEPT ![p] = NoLogin]
    /\ UNCHANGED <<sideVars, users, ip_usage, dbFailures, opCount, loginRest>>

\* cached_queries.write_create_user(email, ip_address): the INSERT, then the
\* eviction of the user cache and the ip bookkeeping when it succeeded
WriteCreateUser(e, ip, o) ==
    /\ opCount["write_create"] < MaxCreates
    /\ MayFail(o)
    /\ users' = IF o = "ok" THEN insert_user(users, e) ELSE users
    /\ IF Truthy(write_create_user(users, e, o))
       THEN /\ userCache' = NoRows
            /\ ip_usage' = log_ip_usage(ip_usage, ip)
       ELSE UNCHANGED <<sideVars, userCache, ip_usage>>
    /\ Counted("write_create")
    /\ CountFailure(o)
    /\ UNCHANGED <<sideVars, usage_logs, now, callVars, lastEval, seed, subtracted,
                   calls, adminOps, evals, cacheReads, loginVars, lastPlan,
                   payVars, docVars, connVars>>

\* a new email or a stored user of any kind, the ip blocked or not
InitSignIn ==
    /\ users \in {NoRows} \cup { [e \in Emails |-> r] : r \in RowsWith(BOOLEAN) }
    /\ usage_logs = <<>>
    /\ ip_usage \in {NoRows} \cup { [i \in IPs |-> IpRow(0, b)] : b \in BOOLEAN }
    /\ userCache = NoRows
    /\ now = NowInit
    /\ pc = [p \in Procs |-> "idle"]
    /\ args = [p \in Procs |-> NoArgs]
    /\ user = [p \in Procs |-> <<>>]
    /\ ret = [p \in Procs |-> "-"]
    /\ lastEval = <<>>
    /\ seed = users
    /\ subtracted = 0
    /\ decOutcome = [p \in Procs |-> "none"]
    /\ lastRead = [p \in Procs |-> "none"]
    /\ calls = 0
    /\ adminOps = 0
    /\ dbFailures = 0
    /\ evals = 0
    /\ cacheReads = 0
    /\ opCount = [k \in OpKinds |-> 0]
    /\ InitLogin
    /\ InitPlan
    /\ InitPayments
    /\ InitDocuments
    /\ InitSide
    /\ InitConnection

NextLogin ==
    \/ \E p \in Procs, e \in Emails, ip \in IPs, o \in DbOutcomes :
          LgIpBlocked(p, e, ip, o)
    \/ \E p \in Procs, o \in DbOutcomes : LgGetUser(p, o)
    \/ \E p \in Procs, o \in DbOutcomes : LgUpdateIp(p, o)
    \/ \E p \in Procs, o \in DbOutcomes : LgCheckExpiry(p, o)
    \/ \E p \in Procs, o \in DbOutcomes : LgDowngrade(p, o)
    \/ \E p \in Procs, o \in DbOutcomes : LgRefresh(p, o)
    \/ \E p \in Procs, o \in DbOutcomes : LgCreateUser(p, o)
    \/ \E p \in Procs, o \in DbOutcomes : LgReadNew(p, o)
    \/ \E p \in Procs : LgReturn(p)
    \/ \E e \in Emails, ip \in IPs, o \in DbOutcomes : WriteCreateUser(e, ip, o)

SpecLogin == InitSignIn /\ [][NextLogin]_vars

CreationStep ==
    \/ opCount'["create"] # opCount["create"]
    \/ opCount'["write_create"] # opCount["write_create"]

\* C18: a user creation (create_user or write_create_user) for an email that
\* already has a row leaves that row, with its plan, questions_remaining,
\* questions_used_total, premium_expiry and blocked flag, as it was, and the
\* table holds the same rows as before (EMAIL is the key of the table, so the
\* refused or skipped INSERT stores nothing).
C18_CreationKeepsExistingRow ==
    [][ CreationStep =>
          \A e \in DOMAIN users :
              /\ e \in DOMAIN users'
              /\ users'[e] = users[e]
              /\ Emails = {e} => users' = users
      ]_vars

\* a creation was attempted for an email whose stored row is not the row a
\* creation writes, and that row is still there
C18_Witness ==
    \E e \in DOMAIN users :
        /\ opCount["write_create"] > 0
        /\ e \in DOMAIN seed
        /\ users[e] = seed[e]
        /\ users[e] # NewUserRow
        /\ users[e].plan_type = PLAN_PRO
        /\ users[e].questions_remaining = 5

AttemptedCreation(p) ==
    /\ login[p].pc = "done"
    /\ login[p].ret.message \in {MsgCreated, MsgCreateFailed}

\* C19: when concurrent logins for the same new email both find no user and
\* both attempt the creation, each returns the user record with a success
\* message; the attempt that finds the row already created is no error.
C19_DuplicateCreationIsNoError ==
    \A p, q \in Procs :
        ( /\ p # q
          /\ AttemptedCreation(p) /\ AttemptedCreation(q)
          /\ login[p].email = login[q].email
          /\ login[p].email \notin DOMAIN seed
          /\ dbFailures = 0
          /\ opCount["write_create"] = 0 )
        => /\ login[p].ret.user # <<>>
           /\ login[p].ret.message = MsgCreated

(***************************************************************************)
(* queries.change_user_plan called with every plan and with and without    *)
(* the questions_remaining argument, on every kind of stored row.          *)
(***************************************************************************)
ChangeUserPlan(e, new_plan, q, o) ==
    /\ opCount["plan"] < MaxPlanChanges
    /\ MayFail(o)
    /\ users' = IF o = "ok" THEN change_user_plan(users, e, new_plan, q, now)
                ELSE users
    /\ lastPlan' = <<[email |-> e, new_plan |-> new_plan, q |-> q, t |-> now,
                      before |-> get_user_by_email(users, e, "ok"),
                      result |-> execute_query_write(o)]>>
    /\ Counted("plan")
    /\ CountFailure(o)
    /\ UNCHANGED <<sideVars, usage_logs, ip_usage, userCache, now, callVars, lastEval,
                   seed, subtracted, calls, adminOps, evals, cacheReads,
                   loginVars, payVars, docVars, connVars>>

NextPlan ==
    \/ \E e \in Emails, np \in Plans, q \in QuotaArgs \cup {NULL},
          o \in DbOutcomes : ChangeUserPlan(e, np, q, o)
    \/ Tick

SpecPlan == InitEval /\ [][NextPlan]_vars

PlanChanged ==
    /\ lastPlan # <<>>
    /\ Truthy(lastPlan[1].result)
    /\ lastPlan[1].before # <<>>

\* C20: change_user_plan(email, newPlan, q) stores plan = newPlan;
\* questions_remaining = q when q is given, else the free limit for FREE, the
\* pro bonus for PRO and 9999 for PREMIUM; premium_expiry = now + the premium
\* duration for PREMIUM and empty for FREE and PRO, whatever the previous
\* plan and expiry were; the other columns keep their values.
C20_PlanChangeStoresPlanQuotaExpiry ==
    PlanChanged =>
        LET c == lastPlan[1]
            r == users[c.email]
        IN /\ r.plan_type = c.new_plan
           /\ c.q # NULL => r.questions_remaining = c.q
           /\ (c.q = NULL /\ c.new_plan = PLAN_FREE)
                 => r.questions_remaining = FREE_QUESTION_LIMIT
           /\ (c.q = NULL /\ c.new_plan = PLAN_PRO)
                 => r.questions_remaining = PRO_QUESTION_BONUS
           /\ (c.q = NULL /\ c.new_plan = PLAN_PREMIUM)
                 => r.questions_remaining = PREMIUM_UNLIMITED
           /\ c.new_plan = PLAN_PREMIUM
                 => r.premium_expiry = c.t + PREMIUM_DURATION_DAYS
           /\ c.new_plan # PLAN_PREMIUM => r.premium_expiry = NULL
           /\ r.questions_used_total = c.before[1].questions_used_total
           /\ r.is_blocked = c.before[1].is_blocked

\* a PREMIUM user with an expiry ahead was moved to PRO without a quota
\* argument: the pro bonus is stored and the expiry is empty
C20_Witness ==
    /\ PlanChanged
    /\ lastPlan[1].before[1].plan_type = PLAN_PREMIUM
    /\ lastPlan[1].before[1].premium_expiry > lastPlan[1].t
    /\ lastPlan[1].new_plan = PLAN_PRO
    /\ lastPlan[1].q = NULL
    /\ users[lastPlan[1].email].questions_remaining = PRO_QUESTION_BONUS
    /\ users[lastPlan[1].email].premium_expiry = NULL

(***************************************************************************)
(* The reviewer library: document rows of several owners, admin documents  *)
(* with their stored file content and extracted text, the direct listings, *)
(* the soft deletes and the retrievals of one admin document               *)
(* (queries.py lines 339-478, practice_exam.py lines 361-375).             *)
(***************************************************************************)
DocOwners == {"u1", "u2"}
\* an ADMIN_DOC_ID no row has
UnknownDocId == 3
\* FILE_CONTENT: NULL, the base64 text save_admin_document stores, or a text
\* put into the column by another writer that base64 cannot decode
FileContents == {"NULL", "b64", "undecodable"}
\* EXTRACTED_TEXT: NULL when the extraction failed at upload
ExtractedTexts == {"NULL", "text"}

AdminDocFull(deleted, content, text) ==
    [is_deleted |-> deleted, file_content |-> content, extracted_text |-> text]

\* base64.b64decode: "raise" is binascii.Error
b64decode(c) == IF c = "b64" THEN "bytes" ELSE "raise"

\* what the function hands back: <<>> is None
ContentDict == <<[content |-> "bytes"]>>
Raised == <<[exception |-> "binascii.Error"]>>

\* the decode outside of its try block
get_admin_document_content_notry(tbl, doc_id, o) ==
    IF o = "ok" /\ doc_id \in DOMAIN tbl /\ ~tbl[doc_id].is_deleted
       /\ tbl[doc_id].file_content # "NULL"
    THEN IF b64decode(tbl[doc_id].file_content) = "raise" THEN Raised
         ELSE ContentDict
    ELSE <<>>

\* SELECT FILE_CONTENT ... WHERE ADMIN_DOC_ID = %s AND IS_DELETED = FALSE
get_admin_document_content(tbl, doc_id, o) ==
    IF o = "ok" /\ doc_id \in DOMAIN tbl /\ ~tbl[doc_id].is_deleted
       /\ tbl[doc_id].file_content # "NULL"
    THEN IF b64decode(tbl[doc_id].file_content) = "raise" THEN <<>>
         ELSE ContentDict
    ELSE <<>>

\* the select without its IS_DELETED condition
get_admin_document_text_nofilter(tbl, doc_id, o) ==
    IF o = "ok" /\ doc_id \in DOMAIN tbl
    THEN <<[text |-> tbl[doc_id].extracted_text]>>
    ELSE <<>>

\* SELECT EXTRACTED_TEXT ... WHERE ADMIN_DOC_ID = %s AND IS_DELETED = FALSE;
\* <<>> is None, <<[text |-> ...]>> the dict, whose text may be NULL
get_admin_document_text(tbl, doc_id, o) ==
    IF o = "ok" /\ doc_id \in DOMAIN tbl /\ ~tbl[doc_id].is_deleted
    THEN <<[text |-> tbl[doc_id].extracted_text]>>
    ELSE <<>>

Retrieval(fn, doc_id, result, context) ==
    <<[fn |-> fn, doc_id |-> doc_id, result |-> result, context |-> context]>>

libraryRest == <<quotaVars, loginVars, lastPlan, payVars, connVars, docVars,
                 opCount, histVars, auditVars, ttlVars, txVars, flowVars>>

\* upload_reviewer.py line 272: the content behind the download button
GetAdminDocumentContent(d, o) ==
    /\ MayFail(o)
    /\ retrieval' = Retrieval("content", d,
                              get_admin_document_content(admin_documents, d, o),
                              FALSE)
    /\ CountFailure(o)
    /\ UNCHANGED libraryRest

\* practice_exam.py lines 364-370: the text of an admin document selected in
\* the listing the page has drawn; it joins the AI context when there is a
\* dict and its text is not empty
PracticeGatherText(d, o) ==
    /\ MayFail(o)
    /\ lastListing # <<>>
    /\ lastListing[1].kind = "admin"
    /\ ~lastListing[1].cached
    /\ d \in lastListing[1].result
    /\ LET doc_data == get_admin_document_text(admin_documents, d, o) IN
         retrieval' = Retrieval("text", d, doc_data,
                                doc_data # <<>> /\ doc_data[1].text # "NULL")
    /\ CountFailure(o)
    /\ UNCHANGED libraryRest

\* documents uploaded earlier by one or two users and by the admin, none
\* deleted; the second admin document is a complete upload
InitLibrary ==
    /\ users = NoRows
    /\ InitCore
    /\ opCount = [k \in OpKinds |-> 0]
    /\ InitLogin
    /\ InitPlan
    /\ InitPayments
    /\ InitConnection
    /\ InitSide
    /\ user_documents \in
         { [d \in DocIds |-> UserDocRow(IF d = 1 THEN "u1" ELSE e, FALSE)] :
             e \in DocOwners }
    /\ admin_documents \in
         { [d \in AdminDocIds |->
              IF d = 1 THEN AdminDocFull(FALSE, c, t)
              ELSE AdminDocFull(FALSE, "b64", "text")] :
             c \in FileContents, t \in ExtractedTexts }
    /\ userDocsCache = NoRows
    /\ adminDocsCache = <<>>
    /\ lastListing = <<>>

NextLibrary ==
    \/ \E d \in DocIds, e \in DocOwners, o \in DbOutcomes :
          DeleteUserDocument(d, e, o)
    \/ \E d \in AdminDocIds, o \in DbOutcomes : DeleteAdminDocument(d, o)
    \/ \E e \in DocOwners, o \in DbOutcomes : GetUserDocuments(e, o)
    \/ \E o \in DbOutcomes : GetAdminDocuments(o)
    \/ \E d \in AdminDocIds \cup {UnknownDocId}, o \in DbOutcomes :
          GetAdminDocumentContent(d, o)
    \/ \E d \in AdminDocIds, o \in DbOutcomes : PracticeGatherText(d, o)

SpecLibrary == InitLibrary /\ [][NextLibrary]_vars

AdminDocDeleted(d) ==
    d \in DOMAIN admin_documents /\ admin_documents[d].is_deleted

\* the rows of tbl2 are the rows of tbl, but for deleted flags that were set
OnlyFlagsSet(tbl, tbl2) ==
    /\ DOMAIN tbl2 = DOMAIN tbl
    /\ \A d \in DOMAIN tbl :
         \/ tbl2[d] = tbl[d]
         \/ tbl2[d] = [tbl[d] EXCEPT !.is_deleted = TRUE]

\* C21: a document whose deleted flag is set is returned by no direct listing
\* and by no content or text retrieval (both return None for it, so the page
\* does not put it into the AI context), and a soft delete keeps the row.
C21_DeletedNeverRetrieved ==
    [][ /\ opCount'["listing"] # opCount["listing"] =>
              \A d \in lastListing'[1].result :
                  ~IsDeleted(lastListing'[1].kind, d)
        /\ (retrieval' # retrieval /\ AdminDocDeleted(retrieval'[1].doc_id)) =>
              /\ retrieval'[1].result = <<>>
              /\ ~retrieval'[1].context
        /\ OnlyFlagsSet(user_documents, user_documents')
        /\ OnlyFlagsSet(admin_documents, admin_documents') ]_vars

\* the text of a document was asked for after the document had been listed
\* and then deleted
C21_Witness ==
    /\ retrieval # <<>>
    /\ retrieval[1].fn = "text"
    /\ AdminDocDeleted(retrieval[1].doc_id)
    /\ admin_documents[retrieval[1].doc_id].extracted_text = "text"
    /\ retrieval[1].result = <<>>
    /\ dbFailures = 0

\* C22: delete_user_document(doc_id, email) sets the deleted flag only on the
\* document with that id and that owner; every document of another owner,
\* the one with id doc_id included, and every admin document stay unchanged.
C22_DeleteScopedByOwner ==
    [][ \A d \in DocIds, e \in DocOwners, o \in DbOutcomes :
          DeleteUserDocument(d, e, o) =>
            /\ \A x \in DOMAIN user_documents :
                 (x # d \/ user_documents[x].email # e) =>
                     user_documents'[x] = user_documents[x]
            /\ (o = "ok" /\ user_documents[d].email = e) =>
                     user_documents'[d].is_deleted
            /\ DOMAIN user_documents' = DOMAIN user_documents
            /\ admin_documents' = admin_documents ]_vars

\* a delete that ran without error on a document of another owner: one
\* delete call was made, no statement failed, and no flag is set
C22_Witness ==
    /\ opCount["delete"] = 1
    /\ dbFailures = 0
    /\ \A d \in DOMAIN user_documents : ~user_documents[d].is_deleted
    /\ \A d \in DOMAIN admin_documents : ~admin_documents[d].is_deleted
    /\ \E d, x \in DOMAIN user_documents :
         user_documents[d].email # user_documents[x].email

\* C23: get_admin_document_content returns None and never raises for an
\* unknown id, a soft-deleted document, a document without stored content and
\* a content that cannot be decoded; it returns content only for an existing
\* document that is not deleted and has content.
C23_ContentNoneNeverRaises ==
    [][ (retrieval' # retrieval /\ retrieval'[1].fn = "content") =>
          LET d == retrieval'[1].doc_id
              res == retrieval'[1].result IN
            /\ res \in {<<>>, ContentDict}
            /\ res = ContentDict =>
                 /\ d \in DOMAIN admin_documents
                 /\ ~admin_documents[d].is_deleted
                 /\ admin_documents[d].file_content = "b64"
            /\ (\/ d \notin DOMAIN admin_documents
                \/ admin_documents[d].is_deleted
                \/ admin_documents[d].file_content \in {"NULL", "undecodable"})
                 => res = <<>> ]_vars

\* the content of a live document with an undecodable FILE_CONTENT was asked
\* for, the statement ran, and the answer was None
C23_Witness ==
    /\ retrieval # <<>>
    /\ retrieval[1].fn = "content"
    /\ retrieval[1].doc_id \in DOMAIN admin_documents
    /\ ~admin_documents[retrieval[1].doc_id].is_deleted
    /\ admin_documents[retrieval[1].doc_id].file_content = "undecodable"
    /\ retrieval[1].result = <<>>
    /\ dbFailures = 0

(***************************************************************************)
(* The "Delete User" button (admin_panel.py lines 190-195) on top of       *)
(* queries.delete_user, statement by statement, next to the sessions that  *)
(* spend questions; and the two logs, USAGE_LOGS and ADMIN_ACTIONS.        *)
(***************************************************************************)
\* the action type imported from config.settings, kept by its name
ACTION_USER_DELETED == "ACTION_USER_DELETED"

HistoryRow(email, ip) == [email |-> email, ip_address |-> ip]

\* the tables delete_user empties, in the order of its statements
DeleteOrder == <<"history", "logs", "docs", "payments", "users">>

Deleting(step, email) == <<[pc |-> step, email |-> email]>>

\* DELETE FROM <table> WHERE EMAIL = %s on a table kept as a sequence
DeleteSeqWhereEmail(rows, email) == SelectSeq(rows, LAMBDA r : r.email # email)

\* INSERT INTO ADMIN_ACTIONS (ADMIN_USER, ACTION_TYPE, DETAILS)
log_admin_action(tbl, admin_user, action_type, details) ==
    Append(tbl, [admin_user |-> admin_user, action_type |-> action_type,
                 details |-> details])

deleteRest == <<userCache, now, callVars, lastEval, seed, subtracted, calls,
                evals, cacheReads, ip_usage, loginVars, lastPlan, card,
                admin_documents, userDocsCache, adminDocsCache, lastListing,
                connVars, opCount, retrieval, hist, ttlVars, txVars, flowVars>>

\* the button is pressed for a user of the list
DuStart(e) ==
    /\ adminOps < MaxAdminOps
    /\ IF del = <<>> THEN TRUE ELSE del[1].pc = "done"
    /\ del' = Deleting(DeleteOrder[1], e)
    /\ adminOps' = adminOps + 1
    /\ UNCHANGED <<users, usage_logs, user_ip_history, user_documents,
                   payments, admin_actions, dbFailures, deleteRest>>

\* lines 145-152: the DELETE of step i; its result is not looked at, the
\* next statement runs whatever happened to this one
DuDelete(i, o) ==
    /\ del # <<>>
    /\ del[1].pc = DeleteOrder[i]
    /\ MayFail(o)
    /\ LET e == del[1].email
           run(step) == DeleteOrder[i] = step /\ o = "ok" IN
         /\ user_ip_history' = IF run("history")
                               THEN DeleteSeqWhereEmail(user_ip_history, e)
                               ELSE user_ip_history
         /\ usage_logs' = IF run("logs")
                          THEN DeleteSeqWhereEmail(usage_logs, e)
                          ELSE usage_logs
         /\ user_documents' = IF run("docs")
                              THEN DeleteWhereEmail(user_documents, e)
                              ELSE user_documents
         /\ payments' = IF run("payments")
                        THEN DeleteWhereEmail(payments, e)
                        ELSE payments
         /\ users' = IF run("users")
                     THEN [k \in DOMAIN users \ {e} |-> users[k]]
                     ELSE users
         /\ del' = Deleting(IF i < Len(DeleteOrder) THEN DeleteOrder[i + 1]
                            ELSE "action", e)
    /\ CountFailure(o)
    /\ UNCHANGED <<admin_actions, adminOps, deleteRest>>

\* line 193: log_admin_action("admin", ACTION_USER_DELETED, ...)
DuLogAction(o) ==
    /\ del # <<>>
    /\ del[1].pc = "action"
    /\ MayFail(o)
    /\ admin_actions' = IF o = "ok"
                        THEN log_admin_action(admin_actions, "admin",
                                              ACTION_USER_DELETED, del[1].email)
                        ELSE admin_actions
    /\ del' = Deleting("done", del[1].email)
    /\ CountFailure(o)
    /\ UNCHANGED <<users, usage_logs, user_ip_history, user_documents,
                   payments, adminOps, deleteRest>>

\* a user who has logged in from one address, uploaded a document and asked
\* for an upgrade
InitDelete ==
    /\ users \in { [e \in Emails |-> r] :
                      r \in {x \in SeedRows : x.plan_type = PLAN_FREE
                                              /\ x.questions_remaining > 0} }
    /\ InitCore
    /\ opCount = [k \in OpKinds |-> 0]
    /\ InitLogin
    /\ InitPlan
    /\ InitConnection
    /\ card = [a \in Admins |-> NoCard]
    /\ payments \in [PaymentIds ->
                        { PaymentRow(e, PLAN_PRO, PAYMENT_PENDING, "", "", NULL) :
                            e \in Emails }]
    /\ user_documents \in [DocIds -> {UserDocRow(e, FALSE) : e \in Emails}]
    /\ admin_documents = NoRows
    /\ userDocsCache = NoRows
    /\ adminDocsCache = <<>>
    /\ lastListing = <<>>
    /\ user_ip_history \in { <<HistoryRow(e, ip)>> : e \in Emails, ip \in IPs }
    /\ retrieval = <<>>
    /\ hist = <<>>
    /\ admin_actions = <<>>
    /\ del = <<>>
    /\ ttlCache = <<>>
    /\ lastLookup = <<>>
    /\ transaction = NoTransaction
    /\ xq = <<>>
    /\ InitFlows

NextDelete ==
    \/ \E e \in Emails : DuStart(e)
    \/ \E i \in 1..Len(DeleteOrder), o \in DbOutcomes : DuDelete(i, o)
    \/ \E o \in DbOutcomes : DuLogAction(o)
    \/ \E p \in Procs, e \in Emails, ip \in IPs, c \in CacheCounts,
          o \in DbOutcomes : UqGetUser(p, e, ip, c, o)
    \/ \E p \in Procs, o \in DbOutcomes : UqLogUsage(p, o)
    \/ \E p \in Procs, o \in DbOutcomes : UqIncrementIpUsage(p, o)
    \/ \E p \in Procs : UqPremiumCheck(p)
    \/ \E p \in Procs, o \in DbOutcomes : UqDecrement(p, o)
    \/ \E p \in Procs : UqReturn(p)

SpecDelete == InitDelete /\ [][NextDelete]_vars

\* rows of the five tables that carry the email
References(e) ==
    /\ \/ e \in DOMAIN users
       \/ \E i \in 1..Len(user_ip_history) : user_ip_history[i].email = e
       \/ \E i \in 1..Len(usage_logs) : usage_logs[i].email = e
       \/ \E d \in DOMAIN user_documents : user_documents[d].email = e
       \/ \E k \in DOMAIN payments : payments[k].email = e

DeleteCompleted == del # <<>> /\ del[1].pc \in {"action", "done"}

\* C24: once delete_user(email) has completed, no row of user_ip_history,
\* usage_logs, user_documents, payments or users refers to email, also when
\* one of its statements failed or a use_questions call for the same email
\* ran between its statements.
C24_DeleteCascades ==
    DeleteCompleted => ~References(del[1].email)

IsPrefix(a, b) == Len(a) <= Len(b) /\ SubSeq(b, 1, Len(a)) = a

\* C25: USAGE_LOGS and ADMIN_ACTIONS are append-only: every step leaves the
\* rows recorded so far in place and unchanged, delete_user included.
C25_LogsAppendOnly ==
    [][ /\ IsPrefix(usage_logs, usage_logs')
        /\ IsPrefix(admin_actions, admin_actions') ]_vars

(***************************************************************************)
(* IP_USAGE bookkeeping: the logins (get_or_create_user) next to the       *)
(* sessions that spend questions (use_questions), on a table in which the  *)
(* address may have no row yet.                                            *)
(***************************************************************************)
NextIpUsage ==
    \/ \E p \in Procs, e \in Emails, ip \in IPs, o \in DbOutcomes :
          LgIpBlocked(p, e, ip, o)
    \/ \E p \in Procs, o \in DbOutcomes : LgGetUser(p, o)
    \/ \E p \in Procs, o \in DbOutcomes : LgUpdateIp(p, o)
    \/ \E p \in Procs, o \in DbOutcomes : LgCheckExpiry(p, o)
    \/ \E p \in Procs, o \in DbOutcomes : LgDowngrade(p, o)
    \/ \E p \in Procs, o \in DbOutcomes : LgRefresh(p, o)
    \/ \E p \in Procs, o \in DbOutcomes : LgCreateUser(p, o)
    \/ \E p \in Procs, o \in DbOutcomes : LgReadNew(p, o)
    \/ \E p \in Procs : LgReturn(p)
    \/ \E p \in Procs, e \in Emails, ip \in IPs, c \in CacheCounts,
          o \in DbOutcomes : UqGetUser(p, e, ip, c, o)
    \/ \E p \in Procs, o \in DbOutcomes : UqLogUsage(p, o)
    \/ \E p \in Procs, o \in DbOutcomes : UqIncrementIpUsage(p, o)
    \/ \E p \in Procs : UqPremiumCheck(p)
    \/ \E p \in Procs, o \in DbOutcomes : UqDecrement(p, o)
    \/ \E p \in Procs : UqReturn(p)

SpecIpUsage == InitSignIn /\ [][NextIpUsage]_vars

\* the login of session p has handed back a user
LoggedIn(p) == login[p].pc = "done" /\ login[p].ret.user # <<>>

\* the use_questions call of session p found its user and ran to its end
Consumed(p) == pc[p] = "done" /\ user[p] # <<>>

\* C26: after every login that returns a user, new or existing, and after
\* every use_questions call from an address, IP_USAGE has a row for that
\* address, so that the questions spent from it are counted.
C26_IpRowAfterLoginAndUse ==
    \A p \in Procs :
        /\ LoggedIn(p) => login[p].ip_address \in DOMAIN ip_usage
        /\ Consumed(p) => args[p].ip_address \in DOMAIN ip_usage

(***************************************************************************)
(* queries.log_ip_history (and cached_queries.write_log_ip_history, the    *)
(* same three statements): a SELECT, then an UPDATE or an INSERT, each a   *)
(* step of its own.  USER_IP_HISTORY is keyed by its ID column; no         *)
(* statement names a constraint on (EMAIL, IP_ADDRESS), so the table is a  *)
(* sequence of rows.                                                       *)
(***************************************************************************)
\* addresses a user is seen from
HistoryIPs == {"ip1", "ip2"}

HistoryCount(rows, e, ip) ==
    Cardinality({i \in 1..Len(rows) :
                    rows[i].email = e /\ rows[i].ip_address = ip})

\* SELECT ID FROM USER_IP_HISTORY WHERE EMAIL = %s AND IP_ADDRESS = %s, and
\* the test `existing and len(existing) > 0`, false for None
history_exists(rows, e, ip, o) == o = "ok" /\ HistoryCount(rows, e, ip) > 0

\* INSERT INTO USER_IP_HISTORY (EMAIL, IP_ADDRESS) VALUES (%s, %s)
insert_history(rows, e, ip) == Append(rows, HistoryRow(e, ip))

historyRest == <<quotaVars, loginVars, lastPlan, payVars, connVars, docVars,
                 retrieval, auditVars, ttlVars, txVars, flowVars>>

InHistory(p) == p \in DOMAIN hist

\* lines 198-201: existing = execute_query(check_query, (email, ip_address))
HiCheck(p, e, ip, o) ==
    /\ ~InHistory(p)
    /\ \A q \in Procs : q < p => InHistory(q)
    /\ opCount["history"] < MaxHistoryCalls
    /\ MayFail(o)
    /\ hist' = (p :> [pc |-> "write", email |-> e, ip_address |-> ip,
                      existing |-> history_exists(user_ip_history, e, ip, o)])
               @@ hist
    /\ Counted("history")
    /\ CountFailure(o)
    /\ UNCHANGED <<user_ip_history, historyRest>>

\* lines 203-215: the UPDATE of LAST_SEEN when a row was found, the INSERT
\* otherwise; neither result is looked at
HiWrite(p, o) ==
    /\ InHistory(p)
    /\ hist[p].pc = "write"
    /\ MayFail(o)
    /\ user_ip_history' =
         IF ~hist[p].existing /\ o = "ok"
         THEN insert_history(user_ip_history, hist[p].email, hist[p].ip_address)
         ELSE user_ip_history
    /\ hist' = [hist EXCEPT ![p].pc = "done"]
    /\ CountFailure(o)
    /\ UNCHANGED <<opCount, historyRest>>

\* the call has returned
HiReturn(p) ==
    /\ InHistory(p)
    /\ hist[p].pc = "done"
    /\ hist' = [q \in DOMAIN hist \ {p} |-> hist[q]]
    /\ UNCHANGED <<user_ip_history, dbFailures, opCount, historyRest>>

\* the pair has been seen before or not
InitHistory ==
    /\ users = NoRows
    /\ InitCore
    /\ opCount = [k \in OpKinds |-> 0]
    /\ InitLogin
    /\ InitPlan
    /\ InitPayments
    /\ InitDocuments
    /\ InitConnection
    /\ user_ip_history \in
         {<<>>} \cup { <<HistoryRow(e, ip)>> : e \in Emails, ip \in HistoryIPs }
    /\ retrieval = <<>>
    /\ hist = <<>>
    /\ admin_actions = <<>>
    /\ del = <<>>
    /\ ttlCache = <<>>
    /\ lastLookup = <<>>
    /\ transaction = NoTransaction
    /\ xq = <<>>
    /\ InitFlows

NextHistory ==
    \/ \E p \in Procs, e \in Emails, ip \in HistoryIPs, o \in DbOutcomes :
          HiCheck(p, e, ip, o)
    \/ \E p \in Procs, o \in DbOutcomes : HiWrite(p, o)
    \/ \E p \in Procs : HiReturn(p)

SpecHistory == InitHistory /\ [][NextHistory]_vars

\* C27: after any interleaving of log_ip_history calls, two concurrent ones
\* for the same pair and one whose existence check fails included, there is
\* at most one user_ip_history row per (email, ip) pair, and exactly one for
\* the pair of a call that has completed.
C27_HistoryIsUpsert ==
    /\ \A e \in Emails, ip \in HistoryIPs :
          HistoryCount(user_ip_history, e, ip) <= 1
    /\ \A p \in DOMAIN hist :
          hist[p].pc = "done" =>
              HistoryCount(user_ip_history, hist[p].email,
                           hist[p].ip_address) = 1

(***************************************************************************)
(* The cached lookups of cached_queries.py under st.cache_data(ttl=...):   *)
(* one store per function, keyed by the arguments, each entry with the     *)
(* second it was stored at.  `now` counts seconds here.                    *)
(***************************************************************************)
TTL_USER_BY_EMAIL == 60
TTL_ADMIN_DOCUMENTS == 300
TTL_IP_BLOCKED == 30

CachedFns == {"cached_get_user_by_email", "cached_get_admin_documents",
              "cached_is_ip_blocked"}

Ttl(fn) ==
    CASE fn = "cached_get_user_by_email" -> TTL_USER_BY_EMAIL
      [] fn = "cached_get_admin_documents" -> TTL_ADMIN_DOCUMENTS
      [] fn = "cached_is_ip_blocked" -> TTL_IP_BLOCKED

\* the arguments a function is called with; "()" is the empty argument list
LookupKeys(fn) ==
    CASE fn = "cached_get_user_by_email" -> Emails
      [] fn = "cached_get_admin_documents" -> {"()"}
      [] fn = "cached_is_ip_blocked" -> IPs

\* the body of the decorated function: the same statement as the direct query
UnderlyingQuery(fn, key, o) ==
    CASE fn = "cached_get_user_by_email" -> get_user_by_email(users, key, o)
      [] fn = "cached_get_admin_documents" ->
             get_admin_documents(admin_documents, o)
      [] fn = "cached_is_ip_blocked" -> is_ip_blocked(ip_usage, key, o)

\* seconds that pass between two requests: one less than each ttl, and each ttl
TimeSteps == {29, 30, 59, 60, 299, 300}

CacheEntry(value, t) == [value |-> value, stored_at |-> t]

\* an entry that never expires
CacheFresh_nottl(cache, fn, key, t) == <<fn, key>> \in DOMAIN cache

\* an entry for the same arguments that is younger than the function's ttl
CacheFresh(cache, fn, key, t) ==
    /\ <<fn, key>> \in DOMAIN cache
    /\ t - cache[<<fn, key>>].stored_at < Ttl(fn)

Lookup(fn, key, t, ran, value, computed_at) ==
    <<[fn |-> fn, key |-> key, at |-> t, ran_query |-> ran, value |-> value,
       computed_at |-> computed_at]>>

ttlRest == <<usage_logs, userCache, callVars, lastEval, seed, subtracted,
             calls, adminOps, evals, cacheReads, loginVars, lastPlan, payVars,
             docVars, connVars, retrieval, histVars, auditVars, txVars,
             flowVars>>

\* a call of a cached function: the stored value when the entry is fresh,
\* otherwise the query runs and its result, whatever it is, is stored
CachedLookup(fn, key, o) ==
    /\ opCount["lookup"] < MaxLookups
    /\ MayFail(o)
    /\ CacheFresh(ttlCache, fn, key, now) => o = "ok"
    /\ IF CacheFresh(ttlCache, fn, key, now)
       THEN /\ lastLookup' = Lookup(fn, key, now, FALSE,
                                    ttlCache[<<fn, key>>].value,
                                    ttlCache[<<fn, key>>].stored_at)
            /\ ttlCache' = ttlCache
       ELSE LET v == UnderlyingQuery(fn, key, o) IN
            /\ lastLookup' = Lookup(fn, key, now, TRUE, v, now)
            /\ ttlCache' = [k \in DOMAIN ttlCache \cup {<<fn, key>>} |->
                              IF k = <<fn, key>> THEN CacheEntry(v, now)
                              ELSE ttlCache[k]]
    /\ Counted("lookup")
    /\ CountFailure(o)
    /\ UNCHANGED <<users, ip_usage, now, ttlRest>>

\* invalidate_user_cache / invalidate_admin_docs_cache: <function>.clear()
\* drops every entry of the function
Invalidate(fn) ==
    /\ \E k \in DOMAIN ttlCache : k[1] = fn
    /\ ttlCache' = [k \in {x \in DOMAIN ttlCache : x[1] # fn} |-> ttlCache[k]]
    /\ UNCHANGED <<users, ip_usage, now, lastLookup, dbFailures, opCount,
                   ttlRest>>

\* time passes between two requests
Elapse(dt) ==
    /\ opCount["elapse"] < MaxElapses
    /\ now' = now + dt
    /\ Counted("elapse")
    /\ UNCHANGED <<users, ip_usage, ttlCache, lastLookup, dbFailures, ttlRest>>

\* a user, the two admin documents and an address that may be blocked
InitTtl ==
    /\ users \in { [e \in Emails |-> r] :
                      r \in {x \in SeedRows : x.plan_type = PLAN_FREE
                                              /\ x.questions_remaining > 5} }
    /\ InitCore
    /\ opCount = [k \in OpKinds |-> 0]
    /\ InitLogin
    /\ InitPlan
    /\ InitPayments
    /\ InitConnection
    /\ InitSide
    /\ user_documents = NoRows
    /\ admin_documents = [d \in AdminDocIds |-> AdminDocRow(FALSE)]
    /\ userDocsCache = NoRows
    /\ adminDocsCache = <<>>
    /\ lastListing = <<>>

NextTtl ==
    \/ \E fn \in CachedFns, o \in DbOutcomes :
          \E key \in LookupKeys(fn) : CachedLookup(fn, key, o)
    \/ \E fn \in {"cached_get_user_by_email", "cached_get_admin_documents"} :
          Invalidate(fn)
    \/ \E dt \in TimeSteps : Elapse(dt)
    \/ \E e \in Emails, o \in DbOutcomes : AdminBlockUser(e, TRUE, o)

SpecTtl == InitTtl /\ [][NextTtl]_vars

\* C28: a cached lookup returns the stored value without a query when an
\* entry for the same arguments exists, is younger than the function's TTL
\* (60 s user by email, 300 s admin document listing, 30 s IP block check)
\* and was not evicted; otherwise it runs the query, stores the result and
\* returns it.  So a returned value was computed less than TTL before.
C28_ReadThroughWithTtl ==
    [][ opCount'["lookup"] # opCount["lookup"] =>
          LET l == lastLookup'[1]
              k == <<l.fn, l.key>>
              young == /\ k \in DOMAIN ttlCache
                       /\ now - ttlCache[k].stored_at < Ttl(l.fn) IN
            /\ l.at = now
            /\ young =>
                 /\ ~l.ran_query
                 /\ l.value = ttlCache[k].value
                 /\ ttlCache' = ttlCache
            /\ ~young =>
                 /\ l.ran_query
                 /\ l.computed_at = now
                 /\ k \in DOMAIN ttlCache'
                 /\ ttlCache'[k] = CacheEntry(l.value, now)
            /\ l.at - l.computed_at < Ttl(l.fn)
            /\ Ttl("cached_get_user_by_email") = 60
            /\ Ttl("cached_get_admin_documents") = 300
            /\ Ttl("cached_is_ip_blocked") = 30 ]_vars

\* a lookup found an entry exactly as old as its TTL, ran the query again and
\* got a value other than the stored one
C28_Witness ==
    /\ lastLookup # <<>>
    /\ lastLookup[1].fn = "cached_get_user_by_email"
    /\ lastLookup[1].ran_query
    /\ lastLookup[1].at = NowInit + TTL_USER_BY_EMAIL
    /\ lastLookup[1].value # <<>>
    /\ lastLookup[1].value[1].is_blocked
    /\ opCount["lookup"] = 2
    /\ Cardinality(DOMAIN ttlCache) = 1
    /\ dbFailures = 0

(***************************************************************************)
(* can_generate_questions on every kind of input: no user, and every kind  *)
(* of stored row at a time before, at and after its expiry.                *)
(***************************************************************************)
InitVerdict ==
    /\ users \in {NoRows} \cup { [e \in Emails |-> r] : r \in RowsWith(BOOLEAN) }
    /\ InitRest

NextVerdict ==
    \/ \E e \in Emails, o \in DbOutcomes : Evaluate(e, o)
    \/ Tick

SpecVerdict == InitVerdict /\ [][NextVerdict]_vars

DenialReasons == {ReasonNotFound, ReasonBlocked, ReasonPremiumExpired,
                  ReasonFreeExhausted, ReasonProExhausted}

PremiumPastExpiry(r, t) ==
    r.plan_type = PLAN_PREMIUM /\ r.premium_expiry # NULL /\ r.premium_expiry < t

\* C29: can_generate_questions denies with one of four outcomes in a fixed
\* order: no user -> "User not found"; else blocked -> the blocked reason;
\* else PREMIUM past its expiry -> the renewal reason; else FREE or PRO with
\* no questions left -> the upgrade reason, worded differently for FREE and
\* PRO.  No reason is given while a condition before it holds, and the
\* reasons all differ.
C29_DenialsPartitioned ==
    lastEval # <<>> =>
      LET u == lastEval[1].user
          t == lastEval[1].t
          v == lastEval[1].verdict IN
        /\ u = <<>> => v = Verdict(FALSE, ReasonNotFound)
        /\ (u # <<>> /\ u[1].is_blocked) => v = Verdict(FALSE, ReasonBlocked)
        /\ (u # <<>> /\ ~u[1].is_blocked /\ PremiumPastExpiry(u[1], t)) =>
              v = Verdict(FALSE, ReasonPremiumExpired)
        /\ (u # <<>> /\ ~u[1].is_blocked /\ u[1].plan_type # PLAN_PREMIUM
            /\ u[1].questions_remaining <= 0) =>
              v = Verdict(FALSE, IF u[1].plan_type = PLAN_FREE
                                 THEN ReasonFreeExhausted
                                 ELSE ReasonProExhausted)
        /\ ~v.allowed => v.reason \in DenialReasons
        /\ v.reason = ReasonNotFound => u = <<>>
        /\ v.reason = ReasonBlocked => u # <<>>
        /\ v.reason = ReasonPremiumExpired => (u # <<>> /\ ~u[1].is_blocked)
        /\ v.reason \in {ReasonFreeExhausted, ReasonProExhausted} =>
              /\ u # <<>>
              /\ ~u[1].is_blocked
              /\ ~PremiumPastExpiry(u[1], t)
        /\ Cardinality(DenialReasons) = 5

\* a blocked PREMIUM user past the expiry, with no questions left, was told
\* that the account is blocked
C29_Witness ==
    /\ lastEval # <<>>
    /\ lastEval[1].user # <<>>
    /\ lastEval[1].user[1].is_blocked
    /\ PremiumPastExpiry(lastEval[1].user[1], lastEval[1].t)
    /\ lastEval[1].user[1].questions_remaining = 0
    /\ lastEval[1].verdict = Verdict(FALSE, ReasonBlocked)

(***************************************************************************)
(* Several execute_query(..., fetch=False) calls on the one connection of  *)
(* get_connection (st.cache_resource, autocommit off): the sessions run in *)
(* threads of one process, every call takes the same connection object and *)
(* with it the same open transaction.  The driver runs one command at a    *)
(* time, so the calls interleave between cursor.execute, conn.commit and   *)
(* conn.rollback.  `pending` are the writes executed in the open           *)
(* transaction, `durable` the committed ones; a failed statement leaves    *)
(* the transaction aborted until it is ended.                              *)
(***************************************************************************)
Running(pos, write, r) == [pc |-> pos, write |-> write, ret |-> r]

\* conn.commit(): ends the transaction; an aborted one is ended as a rollback
\* by the server, without an exception
commit(tx) ==
    [pending |-> {},
     durable |-> IF tx.aborted THEN tx.durable ELSE tx.durable \cup tx.pending,
     aborted |-> FALSE]

\* conn.rollback(): drops every statement of the open transaction
rollback(tx) == [pending |-> {}, durable |-> tx.durable, aborted |-> FALSE]

sharedRest == <<quotaVars, loginVars, lastPlan, payVars, connVars, docVars,
                retrieval, histVars, auditVars, ttlVars, flowVars>>

\* lines 84-91: cursor.execute(query, params); the statement raises when it
\* fails or when the transaction is already aborted
XqExecute(p, o) ==
    /\ p \notin DOMAIN xq
    /\ \A q \in Procs : q < p => q \in DOMAIN xq
    /\ opCount["query"] < MaxQueries
    /\ MayFail(o)
    /\ LET w == opCount["query"] + 1
           raises == o = "fail" \/ transaction.aborted IN
         /\ transaction' =
              IF raises THEN [transaction EXCEPT !.aborted = TRUE]
              ELSE [transaction EXCEPT !.pending = @ \cup {w}]
         /\ xq' = (p :> Running(IF raises THEN "rollback" ELSE "commit", w, "-"))
                  @@ xq
    /\ Counted("query")
    /\ CountFailure(o)
    /\ UNCHANGED sharedRest

\* lines 95-97: conn.commit(); result = True
XqCommit(p, o) ==
    /\ p \in DOMAIN xq
    /\ xq[p].pc = "commit"
    /\ MayFail(o)
    /\ IF o = "ok"
       THEN /\ transaction' = commit(transaction)
            /\ xq' = [xq EXCEPT ![p].pc = "done", ![p].ret = "True"]
       ELSE /\ transaction' = transaction
            /\ xq' = [xq EXCEPT ![p].pc = "rollback"]
    /\ CountFailure(o)
    /\ UNCHANGED <<opCount, sharedRest>>

\* lines 127-133: except Exception: conn.rollback(); return None
XqRollback(p) ==
    /\ p \in DOMAIN xq
    /\ xq[p].pc = "rollback"
    /\ transaction' = rollback(transaction)
    /\ xq' = [xq EXCEPT ![p].pc = "done", ![p].ret = "None"]
    /\ UNCHANGED <<dbFailures, opCount, sharedRest>>

\* the call has returned
XqReturn(p) ==
    /\ p \in DOMAIN xq
    /\ xq[p].pc = "done"
    /\ xq' = [q \in DOMAIN xq \ {p} |-> xq[q]]
    /\ UNCHANGED <<transaction, dbFailures, opCount, sharedRest>>

InitShared ==
    /\ users = NoRows
    /\ InitRest

NextShared ==
    \/ \E p \in Procs, o \in DbOutcomes : XqExecute(p, o)
    \/ \E p \in Procs, o \in DbOutcomes : XqCommit(p, o)
    \/ \E p \in Procs : XqRollback(p)
    \/ \E p \in Procs : XqReturn(p)

SpecShared == InitShared /\ [][NextShared]_vars

\* C30: under any interleaving of execute_query calls on the shared
\* connection, a write whose call returned True is committed, not undone by
\* the rollback of another call, and a write whose call returned None has
\* not been made durable by the commit of another call.
C30_ReturnMatchesDurability ==
    \A p \in DOMAIN xq :
        xq[p].pc = "done" =>
            /\ xq[p].ret = "True" => xq[p].write \in transaction.durable
            /\ xq[p].ret = "None" => xq[p].write \notin transaction.durable

(***************************************************************************)
(* The practice request (pages/practice_exam.py render_practice_page): one *)
(* run of the script for a logged-in session, statement by statement, with *)
(* the use_questions call it makes, next to the admin panel and the clock. *)
(* practice[1].session_user is st.session_state.user.                      *)
(***************************************************************************)
\* config.settings, imported at line 16: the size of one batch
QUESTIONS_PER_BATCH == 5

\* runs of render_practice_page in one behaviour
MaxRuns == 2

ExpiredDisplay == "Expired"

\* usage_tracker.get_user_status: the two entries the page reads
get_user_status(u, t) ==
    IF u = <<>> THEN [plan |-> "Unknown", expiry_display |-> "None"]
    ELSE LET r == u[1] IN
      [plan |-> r.plan_type,
       expiry_display |->
           IF r.plan_type = PLAN_PREMIUM /\ r.premium_expiry # NULL
           THEN IF r.premium_expiry > t THEN "days left" ELSE ExpiredDisplay
           ELSE "None"]

\* lines 105-123: the upgrade prompt and the return
EarlyReturn(can_gen, questions_remaining) ==
    ~can_gen /\ questions_remaining <= 0

\* line 314
IsPremium(status) ==
    status.plan = PLAN_PREMIUM /\ status.expiry_display # ExpiredDisplay

\* line 315
CanGenerate(questions_remaining, is_premium) ==
    questions_remaining >= QUESTIONS_PER_BATCH \/ is_premium

\* line 345: the batch is refused
FreshCheckRefuses(fresh_remaining, is_premium) ==
    fresh_remaining < QUESTIONS_PER_BATCH /\ ~is_premium

NoVerdict == Verdict(FALSE, "")

IdlePractice(e, row) ==
    [pos |-> "idle", email |-> e, session_user |-> row,
     verdict |-> NoVerdict, questions_remaining |-> 0,
     is_free_user |-> FALSE, is_premium |-> FALSE,
     fresh_check |-> <<>>, fresh_at |-> 0, generation |-> "none",
     use_ret |-> "-", stored |-> FALSE, report |-> ""]

RunEnded(pos) ==
    pos \in {"idle", "returned", "no_button", "not_clicked", "refused",
             "failed", "reported"}

practiceRest == <<userCache, lastEval, seed, subtracted, calls, adminOps,
                  evals, cacheReads, loginVars, lastPlan, payVars, docVars,
                  connVars, retrieval, histVars, auditVars, ttlVars, txVars,
                  retry, save, saved_rows>>

\* lines 24-40, 60, 105-123, 314-340: the script runs from the top up to the
\* Generate button; clicked says whether this run was started by the button
PrRender(clicked, o) ==
    /\ practice # <<>>
    /\ RunEnded(practice[1].pos)
    /\ opCount["practice"] < MaxRuns
    /\ MayFail(o)
    /\ LET e == practice[1].email
           fresh_user == get_user_by_email(users, e, o)
           usr == IF fresh_user # <<>> THEN fresh_user
                  ELSE <<practice[1].session_user>>
           status == get_user_status(usr, now)
           qr == usr[1].questions_remaining
           v == can_generate_questions(usr, now)
           is_premium == IsPremium(status)
       IN practice' =
            <<[IdlePractice(e, usr[1]) EXCEPT
                 !.verdict = v,
                 !.questions_remaining = qr,
                 !.is_free_user = (status.plan = PLAN_FREE),
                 !.is_premium = is_premium,
                 !.pos = IF EarlyReturn(v.allowed, qr) THEN "returned"
                         ELSE IF ~CanGenerate(qr, is_premium) THEN "no_button"
                         ELSE IF clicked THEN "check" ELSE "not_clicked"]>>
    /\ Counted("practice")
    /\ CountFailure(o)
    /\ UNCHANGED <<practiceRest, dbVars, now, callVars>>

\* lines 342-400: the re-read after the click, the batch check and the
\* generation; questions says whether the generator returned a non-empty list
PrFreshCheck(questions, o) ==
    /\ practice # <<>>
    /\ practice[1].pos = "check"
    /\ MayFail(o)
    /\ LET fresh_check == get_user_by_email(users, practice[1].email, o)
           fresh_remaining == IF fresh_check # <<>>
                              THEN fresh_check[1].questions_remaining ELSE 0
       IN practice' =
            <<[practice[1] EXCEPT
                 !.fresh_check = fresh_check,
                 !.fresh_at = now,
                 !.generation =
                     IF FreshCheckRefuses(fresh_remaining, practice[1].is_premium)
                     THEN "none"
                     ELSE IF questions THEN "questions" ELSE "empty",
                 !.pos =
                     IF FreshCheckRefuses(fresh_remaining, practice[1].is_premium)
                     THEN "refused"
                     ELSE IF questions THEN "use" ELSE "failed"]>>
    /\ CountFailure(o)
    /\ UNCHANGED <<practiceRest, dbVars, now, callVars, opCount>>

\* line 406: use_questions(email, ip_address, QUESTIONS_PER_BATCH, ...)
PrUseQuestions(ip, o) ==
    /\ practice # <<>>
    /\ practice[1].pos = "use"
    /\ UqGetUser(1, practice[1].email, ip, QUESTIONS_PER_BATCH, o)

\* lines 406-417: the call has returned, its value is dropped and the
\* questions are stored in the session
PrStore ==
    /\ practice # <<>>
    /\ practice[1].pos = "use"
    /\ pc[1] = "done"
    /\ practice' = <<[practice[1] EXCEPT !.use_ret = ret[1], !.stored = TRUE,
                                         !.pos = "refresh"]>>
    /\ pc' = [pc EXCEPT ![1] = "idle"]
    /\ args' = [args EXCEPT ![1] = NoArgs]
    /\ user' = [user EXCEPT ![1] = <<>>]
    /\ ret' = [ret EXCEPT ![1] = "-"]
    /\ decOutcome' = [decOutcome EXCEPT ![1] = "none"]
    /\ lastRead' = [lastRead EXCEPT ![1] = "none"]
    /\ UNCHANGED <<practiceRest, dbVars, now, dbFailures, opCount>>

\* line 420: refresh_user_session()
PrRefresh(o) ==
    /\ practice # <<>>
    /\ practice[1].pos = "refresh"
    /\ MayFail(o)
    /\ LET fresh_user == get_user_by_email(users, practice[1].email, o) IN
         practice' = <<[practice[1] EXCEPT
                          !.session_user = IF fresh_user # <<>>
                                           THEN fresh_user[1] ELSE @,
                          !.pos = "report"]>>
    /\ CountFailure(o)
    /\ UNCHANGED <<practiceRest, dbVars, now, callVars, opCount>>

\* lines 421-429: the message about the quota, then st.rerun()
PrReport(o) ==
    /\ practice # <<>>
    /\ practice[1].pos = "report"
    /\ MayFail(o)
    /\ LET updated_user == get_user_by_email(users, practice[1].email, o)
           new_remaining == IF updated_user # <<>>
                            THEN updated_user[1].questions_remaining ELSE 0
       IN practice' = <<[practice[1] EXCEPT
                           !.report = IF practice[1].is_free_user
                                         /\ new_remaining <= 0
                                      THEN "no questions left"
                                      ELSE "deducted from quota",
                           !.pos = "reported"]>>
    /\ CountFailure(o)
    /\ UNCHANGED <<practiceRest, dbVars, now, callVars, opCount>>

\* the session logged in while its account was not blocked; the row may have
\* been blocked since
InitPractice ==
    /\ users \in { [e \in Emails |-> r] : r \in RowsWith(BOOLEAN) }
    /\ InitCore
    /\ opCount = [k \in OpKinds |-> 0]
    /\ InitLogin
    /\ InitPlan
    /\ InitPayments
    /\ InitDocuments
    /\ InitConnection
    /\ retrieval = <<>>
    /\ user_ip_history = <<>>
    /\ hist = <<>>
    /\ admin_actions = <<>>
    /\ del = <<>>
    /\ ttlCache = <<>>
    /\ lastLookup = <<>>
    /\ transaction = NoTransaction
    /\ xq = <<>>
    /\ retry = <<>>
    /\ save = <<>>
    /\ saved_rows = {}
    /\ \E e \in Emails :
         practice = <<IdlePractice(e, [users[e] EXCEPT !.is_blocked = FALSE])>>

NextPractice ==
    \/ \E clicked \in BOOLEAN, o \in DbOutcomes : PrRender(clicked, o)
    \/ \E questions \in BOOLEAN, o \in DbOutcomes : PrFreshCheck(questions, o)
    \/ \E ip \in IPs, o \in DbOutcomes : PrUseQuestions(ip, o)
    \/ \E o \in DbOutcomes : UqLogUsage(1, o)
    \/ \E o \in DbOutcomes : UqIncrementIpUsage(1, o)
    \/ UqPremiumCheck(1)
    \/ \E o \in DbOutcomes : UqDecrement(1, o)
    \/ PrStore
    \/ \E o \in DbOutcomes : PrRefresh(o)
    \/ \E o \in DbOutcomes : PrReport(o)
    \/ \E e \in Emails, np \in Plans, o \in DbOutcomes : AdminChangePlan(e, np, o)
    \/ \E e \in Emails, q \in QuotaArgs, o \in DbOutcomes : AdminAdjustQuota(e, q, o)
    \/ \E e \in Emails, b \in BOOLEAN, o \in DbOutcomes : AdminBlockUser(e, b, o)
    \/ Tick

SpecPractice == InitPractice /\ [][NextPractice]_vars

\* the run reached the generation (lines 348-400)
ReachedGeneration == practice # <<>> /\ practice[1].generation # "none"

\* the run called use_questions (line 406)
CalledUseQuestions ==
    /\ practice # <<>>
    /\ \/ practice[1].pos = "use" /\ pc[1] # "idle"
       \/ practice[1].use_ret # "-"

\* C31: in a practice request the generation and the use_questions call
\* happen only if can_generate_questions permitted the user in that request;
\* a blocked user and a PREMIUM user past the expiry never reach them
C31_GenerationOnlyIfPermitted ==
    (ReachedGeneration \/ CalledUseQuestions) => practice[1].verdict.allowed

\* C32: when the generation of a batch has started, the row that the re-read
\* after the click returned shows questions_remaining >= QUESTIONS_PER_BATCH
\* or a PREMIUM user whose expiry is still ahead at the time of that read
C32_BatchCheckOnFreshRead ==
    (ReachedGeneration /\ practice[1].fresh_check # <<>>) =>
        \/ practice[1].fresh_check[1].questions_remaining
              >= QUESTIONS_PER_BATCH
        \/ PremiumActive(practice[1].fresh_check[1], practice[1].fresh_at)

\* C33: when use_questions returned False or None, the questions are not
\* stored for the user and no deduction from the quota is reported
C33_UnperformedUseNotStored ==
    (practice # <<>> /\ practice[1].use_ret \in {"False", "None"}) =>
        /\ ~practice[1].stored
        /\ practice[1].report # "deducted from quota"

(***************************************************************************)
(* The premium downgrade of a login (check_premium_expiry: a SELECT, then  *)
(* update_user_plan with WHERE EMAIL = %s only) next to the plan changes   *)
(* of the admin panel.                                                     *)
(***************************************************************************)
NextExpiry ==
    \/ NextLogin
    \/ \E e \in Emails, np \in Plans, o \in DbOutcomes : AdminChangePlan(e, np, o)

SpecExpiry == InitSignIn /\ [][NextExpiry]_vars

\* the condition of check_premium_expiry, lines 185-186, on the stored row
StoredPremiumExpired(tbl, e, t) ==
    /\ e \in DOMAIN tbl
    /\ tbl[e].plan_type = PLAN_PREMIUM
    /\ tbl[e].premium_expiry # NULL
    /\ tbl[e].premium_expiry < t

\* the step is the UPDATE of check_premium_expiry in session p
DowngradeWrites(p) ==
    /\ login[p].pc = "downgrade"
    /\ login'[p].pc = "refresh"
    /\ users' # users

\* C34: check_premium_expiry writes FREE with 0 questions only if the stored
\* row is still PREMIUM with a past expiry at the moment of the write; a plan
\* change that landed between its read and its write is not overwritten
C34_DowngradeKeepsConcurrentPlanChange ==
    [][ \A p \in Procs :
          DowngradeWrites(p) => StoredPremiumExpired(users, login[p].email, now)
      ]_vars

(***************************************************************************)
(* execute_query's retry (connection.py lines 106-128) under the writes of *)
(* use_questions.  conn.commit() is inside the try block: when the link    *)
(* drops after the server has committed, psycopg2 raises OperationalError  *)
(* for a statement that is stored, and the except branch reconnects and    *)
(* sends the statement again.                                              *)
(***************************************************************************)
\* connection losses during the writes of one behaviour
MaxLost == 1

WriteStatements == {"log", "ip", "dec"}

\* the tables after the write statement at position stmt of session p
Applied(stmt, p) ==
    [users |-> IF stmt = "dec"
               THEN decrement_user_questions(users, args[p].email, args[p].count)
               ELSE users,
     usage_logs |-> IF stmt = "log"
                    THEN log_usage(usage_logs, args[p].email,
                                   args[p].ip_address, args[p].count)
                    ELSE usage_logs,
     ip_usage |-> IF stmt = "ip"
                  THEN increment_ip_usage(ip_usage, args[p].ip_address,
                                          args[p].count)
                  ELSE ip_usage]

\* the statement of use_questions that follows stmt
AfterStatement(stmt) ==
    IF stmt = "log" THEN "ip" ELSE IF stmt = "ip" THEN "premium" ELSE "done"

retryRest == <<userCache, now, lastEval, seed, calls, adminOps, evals,
               cacheReads, loginVars, lastPlan, payVars, docVars, connVars,
               retrieval, histVars, auditVars, ttlVars, txVars, practice,
               save, saved_rows>>

\* lines 85-106: the first attempt raises psycopg2.OperationalError, either
\* before anything was committed or out of conn.commit() after the commit
\* reached the server
RtOperationalError(p, committed) ==
    /\ retry = <<>>
    /\ pc[p] \in WriteStatements
    /\ opCount["lost"] < MaxLost
    /\ LET a == IF committed THEN Applied(pc[p], p)
                ELSE [users |-> users, usage_logs |-> usage_logs,
                      ip_usage |-> ip_usage]
       IN /\ users' = a.users
          /\ usage_logs' = a.usage_logs
          /\ ip_usage' = a.ip_usage
          /\ subtracted' = subtracted + (QuotaOf(users, args[p].email)
                                         - QuotaOf(a.users, args[p].email))
    /\ retry' = <<[session |-> p, statement |-> pc[p], committed |-> committed]>>
    /\ Counted("lost")
    /\ UNCHANGED <<retryRest, callVars, dbFailures>>

\* lines 107-128: rollback, st.cache_resource.clear(), get_connection() and
\* the same statement once more; True when it went through, None otherwise
RtRetry(p, o) ==
    /\ retry # <<>>
    /\ retry[1].session = p
    /\ MayFail(o)
    /\ LET stmt == retry[1].statement
           a == IF o = "ok" THEN Applied(stmt, p)
                ELSE [users |-> users, usage_logs |-> usage_logs,
                      ip_usage |-> ip_usage]
       IN /\ users' = a.users
          /\ usage_logs' = a.usage_logs
          /\ ip_usage' = a.ip_usage
          /\ subtracted' = subtracted + (QuotaOf(users, args[p].email)
                                         - QuotaOf(a.users, args[p].email))
          /\ pc' = [pc EXCEPT ![p] = AfterStatement(stmt)]
          /\ IF stmt = "dec"
             THEN /\ ret' = [ret EXCEPT ![p] = execute_query_write(o)]
                  /\ decOutcome' = [decOutcome EXCEPT ![p] =
                                      IF o = "fail" THEN "dberror"
                                      ELSE IF a.users # users THEN "applied"
                                      ELSE "nomatch"]
             ELSE UNCHANGED <<ret, decOutcome>>
    /\ retry' = <<>>
    /\ CountFailure(o)
    /\ UNCHANGED <<retryRest, args, user, lastRead, opCount>>

\* one use_questions call on a seeded user, its statements with and without
\* a lost connection
NextRetry ==
    \/ \E e \in Emails, ip \in IPs, c \in Counts, o \in DbOutcomes :
          calls = 0 /\ UqGetUser(1, e, ip, c, o)
    \/ \E o \in DbOutcomes : retry = <<>> /\ UqLogUsage(1, o)
    \/ \E o \in DbOutcomes : retry = <<>> /\ UqIncrementIpUsage(1, o)
    \/ UqPremiumCheck(1)
    \/ \E o \in DbOutcomes : retry = <<>> /\ UqDecrement(1, o)
    \/ UqReturn(1)
    \/ \E committed \in BOOLEAN : RtOperationalError(1, committed)
    \/ \E o \in DbOutcomes : RtRetry(1, o)

SpecRetry == Init /\ [][NextRetry]_vars

\* C35: one use_questions call changes questions_remaining by 0 or by
\* exactly count and questions_used_total by the same amount, and appends at
\* most one usage_logs row, also when execute_query sends a write again
C35_WritesAppliedAtMostOnce ==
    \A p \in Procs :
        pc[p] # "idle" =>
            /\ Len(usage_logs) <= 1
            /\ \A e \in DOMAIN users \cap DOMAIN seed :
                 LET taken == seed[e].questions_remaining
                                - users[e].questions_remaining
                     used == users[e].questions_used_total
                               - seed[e].questions_used_total
                 IN /\ taken = used
                    /\ taken \in {0, args[p].count}

(***************************************************************************)
(* The two gates of a login: the blocked flag of the client IP (IP_USAGE)  *)
(* and the blocked flag of the user (USERS).  No action of SpecLogin       *)
(* changes a blocked flag, so the flags of the state are the stored flags  *)
(* of the whole login.                                                     *)
(***************************************************************************)
IpBlockedStored(ip) == ip \in DOMAIN ip_usage /\ ip_usage[ip].is_blocked

UserBlockedStored(e) == e \in DOMAIN users /\ users[e].is_blocked

\* C36: get_or_create_user returns a user record only if neither the stored
\* blocked flag of the client IP nor the stored blocked flag of the user is
\* set, also when the lookup of the IP flag fails with a database error
C36_BothGatesMustPass ==
    \A p \in Procs :
        (login[p].pc = "done" /\ login[p].ret.user # <<>>) =>
            /\ ~IpBlockedStored(login[p].ip_address)
            /\ ~UserBlockedStored(login[p].email)

(***************************************************************************)
(* save_user_document, save_admin_document and create_payment (queries.py  *)
(* lines 323-336, 374-396, 483-497): an INSERT, then SELECT MAX(<id>) over *)
(* the rows with the same natural key, each a statement of its own.        *)
(* saved_rows holds the ID and the natural key of the inserted rows of the *)
(* three tables.                                                           *)
(***************************************************************************)
\* save calls in one behaviour
MaxSaves == 2

SaveFns == {"save_user_document", "save_admin_document", "create_payment"}

\* (EMAIL, FILE_NAME), FILE_NAME or EMAIL, according to the function
NaturalKeys == {"k1", "k2"}

SavedRow(fn, id, key) == [table |-> fn, id |-> id, key |-> key]

IdsOf(rows, fn) == { r.id : r \in { x \in rows : x.table = fn } }

Max(S) == CHOOSE x \in S : \A y \in S : y <= x

\* the generated identifier of the next row of the table
NextId(rows, fn) == IF IdsOf(rows, fn) = {} THEN 1 ELSE Max(IdsOf(rows, fn)) + 1

\* SELECT MAX(<id>) ... WHERE <natural key> = %s; NULL for None
select_max_id(rows, fn, key, o) ==
    LET ids == { r.id : r \in { x \in rows : x.table = fn /\ x.key = key } }
    IN IF o = "ok" /\ ids # {} THEN Max(ids) ELSE NULL

saveRest == <<quotaVars, loginVars, lastPlan, payVars, connVars, docVars,
              retrieval, histVars, auditVars, ttlVars, txVars, practice,
              retry>>

InSave(p) == p \in DOMAIN save

\* the INSERT; `if result:` sends the call on to the lookup
SvInsert(p, fn, key, o) ==
    /\ ~InSave(p)
    /\ \A q \in Procs : q < p => InSave(q)
    /\ opCount["save"] < MaxSaves
    /\ MayFail(o)
    /\ LET id == NextId(saved_rows, fn) IN
         IF Truthy(execute_query_write(o))
         THEN /\ saved_rows' = saved_rows \cup {SavedRow(fn, id, key)}
              /\ save' = (p :> [pc |-> "select", fn |-> fn, key |-> key,
                                inserted |-> id, ret |-> NULL]) @@ save
         ELSE /\ saved_rows' = saved_rows
              /\ save' = (p :> [pc |-> "done", fn |-> fn, key |-> key,
                                inserted |-> NULL, ret |-> NULL]) @@ save
    /\ Counted("save")
    /\ CountFailure(o)
    /\ UNCHANGED saveRest

\* the lookup of the identifier and the return
SvSelectId(p, o) ==
    /\ InSave(p)
    /\ save[p].pc = "select"
    /\ MayFail(o)
    /\ save' = [save EXCEPT ![p].pc = "done",
                            ![p].ret = select_max_id(saved_rows, save[p].fn,
                                                     save[p].key, o)]
    /\ CountFailure(o)
    /\ UNCHANGED <<saved_rows, opCount, saveRest>>

\* the call has returned
SvReturn(p) ==
    /\ InSave(p)
    /\ save[p].pc = "done"
    /\ save' = [q \in DOMAIN save \ {p} |-> save[q]]
    /\ UNCHANGED <<saved_rows, dbFailures, opCount, saveRest>>

NextSave ==
    \/ \E p \in Procs, fn \in SaveFns, key \in NaturalKeys, o \in DbOutcomes :
          SvInsert(p, fn, key, o)
    \/ \E p \in Procs, o \in DbOutcomes : SvSelectId(p, o)
    \/ \E p \in Procs : SvReturn(p)

\* the three tables hold no row yet
InitSave ==
    /\ users = NoRows
    /\ InitRest

SpecSave == InitSave /\ [][NextSave]_vars

\* C37: a save call returns the identifier of the row its own INSERT
\* created, so two concurrent saves with the same natural key return two
\* different identifiers; it returns None only if its INSERT created no row
C37_ReturnsOwnIdentifier ==
    \A p \in DOMAIN save :
        save[p].pc = "done" =>
            /\ save[p].ret # NULL => save[p].ret = save[p].inserted
            /\ save[p].ret = NULL => save[p].inserted = NULL

(***************************************************************************)
(* The login of a PREMIUM user: what get_or_create_user stores and returns *)
(* when no statement of the behaviour failed.                              *)
(***************************************************************************)
\* session p has returned "Welcome back!" for a user it read as PREMIUM
PremiumLoginDone(p) ==
    /\ login[p].pc = "done"
    /\ login[p].ret.message = MsgWelcome
    /\ login[p].existing_user # <<>>
    /\ login[p].existing_user[1].plan_type = PLAN_PREMIUM
    /\ dbFailures = 0

\* C38: when an existing, unblocked PREMIUM user whose premium_expiry is past
\* logs in from an unblocked IP, plan FREE, questions_remaining 0 and an
\* empty premium_expiry are stored and the record returned is the refreshed
\* one; for a PREMIUM user whose expiry is not past the login changes neither
\* plan, quota nor expiry
C38_LoginDowngradesExpiredPremium ==
    \A p \in Procs :
        PremiumLoginDone(p) =>
            LET e == login[p].email
                before == login[p].existing_user[1]
            IN /\ e \in DOMAIN users
               /\ login[p].ret.user = <<users[e]>>
               /\ IF before.premium_expiry < now
                  THEN /\ users[e].plan_type = PLAN_FREE
                       /\ users[e].questions_remaining = 0
                       /\ users[e].premium_expiry = NULL
                  ELSE /\ users[e].plan_type = before.plan_type
                       /\ users[e].questions_remaining = before.questions_remaining
                       /\ users[e].premium_expiry = before.premium_expiry

\* a login has read a PREMIUM record with 9999 questions and a past expiry
\* and has returned the FREE record with no questions
C38_Witness ==
    \E p \in Procs :
        /\ PremiumLoginDone(p)
        /\ login[p].existing_user[1].premium_expiry < now
        /\ login[p].existing_user[1].questions_remaining = PREMIUM_UNLIMITED
        /\ login[p].ret.user # <<>>
        /\ login[p].ret.user[1].plan_type = PLAN_FREE
        /\ login[p].ret.user[1].questions_remaining = 0
        /\ ~IpBlockedStored(login[p].ip_address)

(***************************************************************************)
(* Every writer of the USERS table in one session each: use_questions, the *)
(* login with its premium downgrade and its user creation, and the plan,   *)
(* quota and block switches of the admin panel, on rows that already carry *)
(* a used total.  One call of use_questions and one login are followed,    *)
(* among any number of admin writes.                                       *)
(***************************************************************************)
SeedUsedTotals == {0, 5}

InitLedger ==
    /\ users \in {NoRows} \cup
          { [e \in Emails |-> [r EXCEPT !.questions_used_total = u]] :
              r \in SeedRows, u \in SeedUsedTotals }
    /\ InitRest

NextLedger ==
    \/ \E e \in Emails, ip \in IPs, c \in Counts, o \in DbOutcomes :
          calls = 0 /\ UqGetUser(1, e, ip, c, o)
    \/ \E o \in DbOutcomes : UqLogUsage(1, o)
    \/ \E o \in DbOutcomes : UqIncrementIpUsage(1, o)
    \/ UqPremiumCheck(1)
    \/ \E o \in DbOutcomes : UqDecrement(1, o)
    \/ UqReturn(1)
    \/ \E e \in Emails, ip \in IPs, o \in DbOutcomes :
          opCount["login"] = 0 /\ LgIpBlocked(1, e, ip, o)
    \/ \E o \in DbOutcomes : LgGetUser(1, o)
    \/ \E o \in DbOutcomes : LgUpdateIp(1, o)
    \/ \E o \in DbOutcomes : LgCheckExpiry(1, o)
    \/ \E o \in DbOutcomes : LgDowngrade(1, o)
    \/ \E o \in DbOutcomes : LgRefresh(1, o)
    \/ \E o \in DbOutcomes : LgCreateUser(1, o)
    \/ \E o \in DbOutcomes : LgReadNew(1, o)
    \/ LgReturn(1)
    \/ \E e \in Emails, np \in Plans, o \in DbOutcomes : AdminChangePlan(e, np, o)
    \/ \E e \in Emails, q \in QuotaArgs, o \in DbOutcomes : AdminAdjustQuota(e, q, o)
    \/ \E e \in Emails, b \in BOOLEAN, o \in DbOutcomes : AdminBlockUser(e, b, o)

SpecLedger == InitLedger /\ [][NextLedger]_vars

\* the step is the decrement statement of a use_questions call for e
DecrementStepFor(e) ==
    \E p \in Procs :
        /\ pc[p] = "dec"
        /\ pc'[p] = "done"
        /\ args[p].email = e

RanQuery(fn) ==
    /\ opCount'["lookup"] # opCount["lookup"]
    /\ lastLookup'[1].fn = fn
    /\ lastLookup'[1].ran_query

\* C40: the cache never stores the outcome of a failed query: a lookup whose
\* query fails with a database error leaves the store as it was, so that the
\* next call runs the query again; a None stored by cached_get_user_by_email
\* means the user had no row when it was read, and a False stored by
\* cached_is_ip_blocked means the address was not blocked when it was read
C40_FailedQueryNotCached ==
    [][ /\ (opCount'["lookup"] # opCount["lookup"]
              /\ dbFailures' # dbFailures) => ttlCache' = ttlCache
        /\ RanQuery("cached_get_user_by_email") =>
              LET k == lastLookup'[1].key IN
              ttlCache'[<<"cached_get_user_by_email", k>>].value = <<>>
                 => k \notin DOMAIN users
        /\ RanQuery("cached_is_ip_blocked") =>
              LET k == lastLookup'[1].key IN
              ttlCache'[<<"cached_is_ip_blocked", k>>].value = FALSE
                 => ~IpBlockedStored(k)
      ]_vars

====
